---- MODULE Spec2Model ----
(***************************************************************************)
(* Model of the LayoutLM document-processing pipeline:                     *)
(*   core/model/postprocess.py        process_predictions,                 *)
(*                                    aggregate_entities, format_output    *)
(*   core/pipeline/document_processor.py  DocumentProcessor                *)
(*                                                                         *)
(* The specifications of the module:                                       *)
(*   SpecAggregate  the loop of aggregate_entities, run on an entity list  *)
(*                  and then once more on its own output;                  *)
(*   SpecDecode     the token loop of process_predictions;                 *)
(*   Spec           the DocumentProcessor: process_image stage by stage,   *)
(*                  process_batch, process_pdf, initialize, shutdown;      *)
(*   SpecBox        box normalization and unnormalize_bbox;                *)
(*   SpecImage      preprocess_image: load, validate, resize;              *)
(*   SpecExport     export_result and the three exporters;                 *)
(*   SpecStages     one call of process_predictions, aggregate_entities,   *)
(*                  format_output or an exporter;                          *)
(*   SpecLoader     load_model and clear_model_cache;                      *)
(*   SpecOcr        the OCR adapter, its factory and the processor that    *)
(*                  owns it;                                               *)
(*   SpecService    get_processor and the handlers of the API and of the   *)
(*                  UI, run by two concurrent callers.                     *)
(*                                                                         *)
(* Conventions.  Python's None / Optional[T] is a sequence of length at    *)
(* most one (<<>> is None).  Confidences are in ten-thousandths (0.5 is    *)
(* 5000, 1.01 is 10100).  A label name is the sequence of its parts        *)
(* between "-" ("B-HEADER" is <<"B", "HEADER">>), so that split("-") is    *)
(* modelled by what it does.  Texts and messages are strings joined with   *)
(* \o.  Time is in microseconds.                                           *)
(***************************************************************************)
EXTENDS Integers, Sequences, FiniteSets, TLC

VARIABLES
    \* ---- aggregate_entities (postprocess.py:89-133)
    agg_entities,   \* the argument `entities`
    agg_idx,        \* how many entities the for loop has consumed
    agg_current,    \* local `current` (<<>> is None)
    agg_aggregated, \* local `aggregated`; the return value once agg_pc = "done"
    agg_pc,         \* "off" | "loop" | "done"
    agg_pass,       \* 1: first application, 2: applied again to its own output
    agg_runs,       \* history: index in agg_entities where each accumulator started
    agg_first,      \* history: the argument of the first application
    \* ---- process_predictions (postprocess.py:23-86)
    dec_result,     \* the argument `inference_result`
    dec_threshold,  \* the argument `confidence_threshold`
    dec_idx,        \* how many tokens the for loop has consumed
    dec_processed,  \* local `processed_words`
    dec_entities,   \* local `entities`; the return value once dec_pc = "done"
    dec_pc,         \* "off" | "loop" | "done"
    \* ---- DocumentProcessor (document_processor.py) and its environment
    cfg,            \* config.ocr.engine, and whether EasyOCR can be loaded here
    confidence_threshold, \* config.model.confidence_threshold
    ocr_engine,     \* self._ocr_engine (<<>> is None); .reader: its _reader is set
    device,         \* self._device (<<>> is None)
    op,             \* public method in progress ("image" | "batch" | "pdf"), "done"
                    \*   when it has returned or raised, "idle" between calls
    pc,             \* position inside process_image / process_pdf, or "none"
    source,         \* process_image: the argument image_source
    image,          \* process_image: local `image` (its size)
    ocr_results,    \* process_image: local `ocr_results`
    inference_result, \* process_image: local `inference_result`
    entities,       \* process_image: local `entities`
    clock,          \* time.time() since the public method was entered, microseconds
    start_time,     \* process_image: local `start_time`
    batch_sources,  \* process_batch: the argument image_sources
    batch_results,  \* process_batch: local `results`
    pdf,            \* process_pdf: the file behind pdf_path
    all_results,    \* process_pdf: local `all_results`
    shutdowns,      \* history: how many times shutdown() has been called
    ret,            \* what the last public method returned or raised (<<>>: nothing yet)
    stages,         \* history: the stages the current process_image call has run
    pi_log,         \* history: outcome of each process_image call of the public method
    \* ---- box normalization (inference.py:46-56) and unnormalize_bbox
    \*      (postprocess.py:181-202)
    nb_box,         \* a pixel box <<x1, y1, x2, y2>>
    nb_size,        \* image.size, <<width, height>>
    nb_normalized,  \* the box in the 0-1000 space (<<>>: not computed yet)
    nb_restored,    \* unnormalize_bbox of nb_normalized (<<>>: not computed yet)
    nb_pc,          \* "off" | "start" | "normalized" | "done"
    \* ---- preprocess_image (image_utils.py:130-156)
    img_source,     \* the decoded source: [size, mode, format] (format <<>> is None)
    img_max_size,   \* the argument max_size
    img_validate,   \* the argument validate
    img_image,      \* local `image` (<<>>: not loaded yet)
    img_error,      \* the exception raised (<<>>: none)
    img_pc,         \* "off" | "load" | "validate" | "resize" | "done" | "raised"
    \* ---- the exporters (export.py)
    ex_fn,          \* the function called: "export_result" | "export_json" | ...
    ex_result,      \* the argument result (<<>> is None, <<d>> the dict d)
    ex_format,      \* the argument format of export_result
    ex_pretty,      \* the argument pretty of export_json
    ex_output,      \* the string returned (<<>>: none)
    ex_error,       \* the exception raised (<<>>: none)
    ex_pc,          \* "off" | the function running | "returned" | "raised"
    \* ---- load_model / clear_model_cache (core/model/loader.py)
    ld_model_cache,     \* _model_cache: cache_key -> model
    ld_processor_cache, \* _processor_cache: cache_key -> processor
    ld_loads,       \* history: how many times the loader (from_pretrained) has run
    ld_history,     \* history, per (model name, device) since the last clear: loader
                    \*   runs, loads completed, and the pair the last load returned
    ld_ret,         \* what the last call returned or raised (<<>>: nothing yet)
    ld_calls,       \* how many calls have been made
    ld_pc,          \* "off" | "ready"
    \* ---- the OCR adapter and its owner (easyocr_engine.py, document_processor.py:28-53)
    oc_cfg,         \* config.ocr.engine, and whether EasyOCR can be loaded here
    oc_engine,      \* processor._ocr_engine (<<>> is None): [id, name, reader]
    oc_adapters,    \* history: how many adapters have been constructed
    oc_readers,     \* history: how many easyocr.Reader objects have been constructed
    oc_ret,         \* what the last call returned or raised (<<>>: nothing yet)
    oc_calls,       \* how many calls have been made
    oc_pc,          \* "off" | "ready"
    \* ---- the shared processor and its callers (document_processor.py:198-207,
    \*      api/routes/process.py, ui/gradio_app.py:94-119)
    sv_processor,   \* global _processor (<<>> is None): the instance's number
    sv_made,        \* history: how many DocumentProcessor instances were constructed
    sv_engines,     \* which instances hold an OCR adapter (_ocr_engine is not None)
    sv_threshold,   \* config.model.confidence_threshold of the global configuration
    sv_callers,     \* per caller (a thread serving one request): the handler `kind`,
                    \*   its arguments `t` and `doc`, its position `pc`, its local
                    \*   `processor`, its `result`, and `disturbed` (history: another
                    \*   caller set the threshold after this one did)
    sv_pc,          \* "off" | "serving"
    \* ---- format_output (postprocess.py:136-178)
    fo_entities,    \* the argument `entities`
    fo_output,      \* the dict returned (<<>>: none yet)
    fo_pc           \* "off" | "call" | "returned"

aggVars == <<agg_entities, agg_idx, agg_current, agg_aggregated, agg_pc,
             agg_pass, agg_runs, agg_first>>

decVars == <<dec_result, dec_threshold, dec_idx, dec_processed, dec_entities, dec_pc>>

procVars == <<cfg, shutdowns, confidence_threshold, ocr_engine, device, op, pc, source, image,
              ocr_results, inference_result, entities, clock, start_time, batch_sources,
              batch_results, pdf, all_results, ret, stages, pi_log>>

boxVars == <<nb_box, nb_size, nb_normalized, nb_restored, nb_pc>>

imgVars == <<img_source, img_max_size, img_validate, img_image, img_error, img_pc>>

expVars == <<ex_fn, ex_result, ex_format, ex_pretty, ex_output, ex_error, ex_pc>>

ldVars == <<ld_model_cache, ld_processor_cache, ld_loads, ld_history, ld_ret, ld_calls, ld_pc>>

\* The state of the module-level caches and of the shared service
ocVars == <<oc_cfg, oc_engine, oc_adapters, oc_readers, oc_ret, oc_calls, oc_pc>>

svVars == <<sv_processor, sv_made, sv_engines, sv_threshold, sv_callers, sv_pc>>

foVars == <<fo_entities, fo_output, fo_pc>>

lateVars == <<ldVars, ocVars, svVars, foVars>>

stageVars == <<aggVars, decVars, procVars, boxVars, imgVars, expVars>>

vars == <<stageVars, lateVars>>

otherThanAgg == <<decVars, procVars, boxVars, imgVars, expVars, lateVars>>

otherThanDec == <<aggVars, procVars, boxVars, imgVars, expVars, lateVars>>

otherThanProc == <<aggVars, decVars, boxVars, imgVars, expVars, lateVars>>

otherThanBox == <<aggVars, decVars, procVars, imgVars, expVars, lateVars>>

otherThanImg == <<aggVars, decVars, procVars, boxVars, expVars, lateVars>>

otherThanExp == <<aggVars, decVars, procVars, boxVars, imgVars, lateVars>>

otherThanLd == <<stageVars, ocVars, svVars, foVars>>

otherThanOc == <<stageVars, ldVars, svVars, foVars>>

otherThanSv == <<stageVars, ldVars, ocVars, foVars>>

otherThanFo == <<stageVars, ldVars, ocVars, svVars>>

-----------------------------------------------------------------------------
(* Bounds of the model *)

MaxEntities == 3

MaxTokens == 3

MaxBatch == 3

MaxPages == 2

\* Calls of shutdown() on one processor
MaxShutdowns == 2

-----------------------------------------------------------------------------
(* Small arithmetic helpers (Python builtins min, max, abs) *)

Min2(a, b) == IF a <= b THEN a ELSE b

Max2(a, b) == IF a >= b THEN a ELSE b

Abs(a) == IF a < 0 THEN 0 - a ELSE a

SeqsUpTo(S, n) == UNION {[1..k -> S] : k \in 0..n}

-----------------------------------------------------------------------------
(* Entities *)

Entity(text, label, confidence, bbox) ==
    [text |-> text, label |-> label, confidence |-> confidence, bbox |-> bbox]

BBox(x1, y1, x2, y2) == [x1 |-> x1, y1 |-> y1, x2 |-> x2, y2 |-> y2]

\* Word boxes on a page: "Name:" at the left, two overlapping words in the
\* middle, one word far to the right.  Gaps: Name:->Doe 50, Name:->John 20,
\* Doe->John -40, John->Ltd 120, Ltd->Name: -210.
AggWords ==
    { [text |-> "Name:", bbox |-> BBox(0, 50, 10, 70)],
      [text |-> "John",  bbox |-> BBox(30, 45, 80, 75)],
      [text |-> "Doe",   bbox |-> BBox(60, 50, 70, 70)],
      [text |-> "Ltd",   bbox |-> BBox(200, 52, 210, 68)] }

AggLabels == {"QUESTION", "ANSWER"}

AggConfidences == {6000, 9000}

AggEntityPool ==
    { Entity(w.text, l, c, w.bbox) : w \in AggWords, l \in AggLabels, c \in AggConfidences }

-----------------------------------------------------------------------------
(* aggregate_entities *)

\* postprocess.py:110  abs(entity.bbox["x1"] - current.bbox["x2"]) < 50
MergeGap == 50

AdjacentInclusive(cur, entity) == Abs(entity.bbox.x1 - cur.bbox.x2) <= MergeGap

Adjacent(cur, entity) == Abs(entity.bbox.x1 - cur.bbox.x2) < MergeGap

MergeMaxConfidence(cur, entity) ==
    Entity(cur.text \o " " \o entity.text,
           cur.label,
           Max2(cur.confidence, entity.confidence),
           BBox(Min2(cur.bbox.x1, entity.bbox.x1), Min2(cur.bbox.y1, entity.bbox.y1),
                Max2(cur.bbox.x2, entity.bbox.x2), Max2(cur.bbox.y2, entity.bbox.y2)))

\* postprocess.py:112-122
Merge(cur, entity) ==
    Entity(cur.text \o " " \o entity.text,
           cur.label,
           Min2(cur.confidence, entity.confidence),
           BBox(Min2(cur.bbox.x1, entity.bbox.x1), Min2(cur.bbox.y1, entity.bbox.y1),
                Max2(cur.bbox.x2, entity.bbox.x2), Max2(cur.bbox.y2, entity.bbox.y2)))

AggLoopBodyAnyLabel(st, entity) ==
    IF st.current = <<>>
    THEN [st EXCEPT !.current = <<entity>>]
    ELSE LET cur == st.current[1] IN
         IF Adjacent(cur, entity)
         THEN [st EXCEPT !.current = <<Merge(cur, entity)>>]
         ELSE [current |-> <<entity>>, aggregated |-> Append(st.aggregated, cur)]

\* One iteration of the for loop, postprocess.py:105-128, on the pair of locals.
AggLoopBody(st, entity) ==
    IF st.current = <<>>
    THEN [st EXCEPT !.current = <<entity>>]
    ELSE LET cur == st.current[1] IN
         IF entity.label = cur.label
         THEN IF Adjacent(cur, entity)
              THEN [st EXCEPT !.current = <<Merge(cur, entity)>>]
              ELSE [current |-> <<entity>>, aggregated |-> Append(st.aggregated, cur)]
         ELSE [current |-> <<entity>>, aggregated |-> Append(st.aggregated, cur)]

AggFinishNoAppend(st) == st.aggregated

\* postprocess.py:130-133
AggFinish(st) ==
    IF st.current # <<>> THEN Append(st.aggregated, st.current[1]) ELSE st.aggregated

RECURSIVE AggFold(_, _)
AggFold(st, ents) ==
    IF ents = <<>> THEN st
    ELSE AggFold(AggLoopBody(st, Head(ents)), Tail(ents))

\* aggregate_entities as a function, postprocess.py:89-133
AggregateEntities(ents) ==
    IF ents = <<>> THEN <<>>
    ELSE AggFinish(AggFold([current |-> <<>>, aggregated |-> <<>>], ents))

AggOff ==
    /\ agg_entities = <<>>
    /\ agg_first = <<>>
    /\ agg_idx = 0
    /\ agg_current = <<>>
    /\ agg_aggregated = <<>>
    /\ agg_pc = "off"
    /\ agg_pass = 0
    /\ agg_runs = <<>>

AggInit ==
    /\ \E n \in 0..MaxEntities : agg_entities \in [1..n -> AggEntityPool]
    /\ agg_first = agg_entities
    /\ agg_idx = 0
    /\ agg_current = <<>>
    /\ agg_aggregated = <<>>
    /\ agg_pc = "loop"
    /\ agg_pass = 1
    /\ agg_runs = <<>>

\* postprocess.py:99-100  `if not entities: return []`
AggReturnEmpty ==
    /\ agg_pc = "loop"
    /\ agg_entities = <<>>
    /\ agg_pc' = "done"
    /\ agg_aggregated' = <<>>
    /\ UNCHANGED <<agg_entities, agg_idx, agg_current, agg_pass, agg_runs, agg_first>>
    /\ UNCHANGED otherThanAgg

AggIterateInPlace ==
    /\ agg_pc = "loop"
    /\ agg_idx < Len(agg_entities)
    /\ LET entity == agg_entities[agg_idx + 1]
           st == AggLoopBody([current |-> agg_current, aggregated |-> agg_aggregated], entity)
           merged == agg_current # <<>> /\ st.aggregated = agg_aggregated
       IN /\ agg_current' = st.current
          /\ agg_aggregated' = st.aggregated
          /\ agg_runs' = IF merged THEN agg_runs ELSE Append(agg_runs, agg_idx + 1)
          /\ agg_entities' = IF merged
                             THEN [agg_entities EXCEPT ![agg_runs[Len(agg_runs)]] = st.current[1]]
                             ELSE agg_entities
    /\ agg_idx' = agg_idx + 1
    /\ UNCHANGED <<agg_pc, agg_pass, agg_first>>
    /\ UNCHANGED otherThanAgg

\* postprocess.py:105-128, one iteration
AggIterate ==
    /\ agg_pc = "loop"
    /\ agg_idx < Len(agg_entities)
    /\ LET entity == agg_entities[agg_idx + 1]
           st == AggLoopBody([current |-> agg_current, aggregated |-> agg_aggregated], entity)
       IN /\ agg_current' = st.current
          /\ agg_aggregated' = st.aggregated
          /\ agg_runs' = IF agg_current # <<>> /\ st.aggregated = agg_aggregated
                         THEN agg_runs
                         ELSE Append(agg_runs, agg_idx + 1)
    /\ agg_idx' = agg_idx + 1
    /\ UNCHANGED <<agg_entities, agg_pc, agg_pass, agg_first>>
    /\ UNCHANGED otherThanAgg

\* postprocess.py:130-133
AggReturn ==
    /\ agg_pc = "loop"
    /\ agg_entities # <<>>
    /\ agg_idx = Len(agg_entities)
    /\ agg_aggregated' = AggFinish([current |-> agg_current, aggregated |-> agg_aggregated])
    /\ agg_pc' = "done"
    /\ UNCHANGED <<agg_entities, agg_idx, agg_current, agg_pass, agg_runs, agg_first>>
    /\ UNCHANGED otherThanAgg

\* aggregate_entities(aggregate_entities(E)): the function is applied to its own result
AggAgain ==
    /\ agg_pc = "done"
    /\ agg_pass = 1
    /\ agg_entities' = agg_aggregated
    /\ agg_idx' = 0
    /\ agg_current' = <<>>
    /\ agg_aggregated' = <<>>
    /\ agg_runs' = <<>>
    /\ agg_pc' = "loop"
    /\ agg_pass' = 2
    /\ UNCHANGED agg_first
    /\ UNCHANGED otherThanAgg

-----------------------------------------------------------------------------
(* process_predictions *)

\* loader.py:135-143  get_label_mapping; a name is the sequence of its
\* "-"-separated parts
LabelTable ==
    [id \in 0..6 |->
        CASE id = 0 -> <<"O">>
          [] id = 1 -> <<"B", "HEADER">>
          [] id = 2 -> <<"I", "HEADER">>
          [] id = 3 -> <<"B", "QUESTION">>
          [] id = 4 -> <<"I", "QUESTION">>
          [] id = 5 -> <<"B", "ANSWER">>
          [] id = 6 -> <<"I", "ANSWER">>]

\* postprocess.py:59  label_map.get(pred, "O")
LabelMapGet(pred) == IF pred \in DOMAIN LabelTable THEN LabelTable[pred] ELSE <<"O">>

SimpleLabelKeepPrefix(label_name) == label_name[1]

\* postprocess.py:71  label_name.split("-")[-1] if "-" in label_name else label_name
SimpleLabel(label_name) ==
    IF Len(label_name) > 1 THEN label_name[Len(label_name)] ELSE label_name[1]

\* Number of tokens the loop visits: zip(predictions, confidence_scores)
NumTokens(r) == Min2(Len(r.predictions), Len(r.confidence_scores))

\* postprocess.py:50  word_ids[idx] if idx < len(word_ids) else None   (idx from 0)
WordIdAt(r, idx) == IF idx < Len(r.word_ids) THEN r.word_ids[idx + 1] ELSE <<>>

KeepTokenIgnoreBackground(label_name, conf, threshold) ==
    ~(conf < threshold)

\* postprocess.py:62  the negation of `label_name == "O" or conf < confidence_threshold`
KeepToken(label_name, conf, threshold) ==
    ~(label_name = <<"O">> \/ conf < threshold)

DecLoopBodyMarkOnEmit(st, r, idx, threshold) ==
    LET wid == WordIdAt(r, idx) IN
    IF wid = <<>> \/ wid[1] \in st.processed_words
    THEN st
    ELSE LET word_id == wid[1]
             label_name == LabelMapGet(r.predictions[idx + 1])
             conf == r.confidence_scores[idx + 1]
         IN IF ~KeepToken(label_name, conf, threshold)
            THEN st
            ELSE [processed_words |-> st.processed_words \cup {word_id},
                  entities |-> Append(st.entities,
                                 Entity(r.words[word_id + 1], SimpleLabel(label_name), conf,
                                        BBox(r.boxes[word_id + 1][1], r.boxes[word_id + 1][2],
                                             r.boxes[word_id + 1][3], r.boxes[word_id + 1][4])))]

\* One iteration of the token loop, postprocess.py:49-83 (idx from 0)
DecLoopBody(st, r, idx, threshold) ==
    LET wid == WordIdAt(r, idx) IN
    IF wid = <<>> \/ wid[1] \in st.processed_words
    THEN st
    ELSE LET word_id == wid[1]
             seen == [st EXCEPT !.processed_words = @ \cup {word_id}]
             label_name == LabelMapGet(r.predictions[idx + 1])
             conf == r.confidence_scores[idx + 1]
         IN IF ~KeepToken(label_name, conf, threshold)
            THEN seen
            ELSE IF word_id < Len(r.words)
                 THEN [seen EXCEPT !.entities =
                          Append(@, Entity(r.words[word_id + 1],
                                           SimpleLabel(label_name),
                                           conf,
                                           BBox(r.boxes[word_id + 1][1], r.boxes[word_id + 1][2],
                                                r.boxes[word_id + 1][3], r.boxes[word_id + 1][4])))]
                 ELSE seen

RECURSIVE DecFold(_, _, _, _)
DecFold(st, r, idx, threshold) ==
    IF idx >= NumTokens(r) THEN st
    ELSE DecFold(DecLoopBody(st, r, idx, threshold), r, idx + 1, threshold)

\* process_predictions as a function, postprocess.py:23-86
ProcessPredictions(r, threshold) ==
    DecFold([processed_words |-> {}, entities |-> <<>>], r, 0, threshold).entities

\* The OCR words of the decoded page and their pixel boxes
DecWords == <<"Name:", "John">>

DecBoxes == << <<50, 50, 120, 70>>, <<150, 50, 280, 70>> >>

\* Label ids a token can be predicted as: O, I-HEADER, B-ANSWER
DecPredictions == {0, 2, 5}

\* Token confidences (0.60, 1.00) and thresholds (0.0, 1.0, 1.01): a confidence
\* below, equal to and above a threshold all occur
DecConfidences == {6000, 10000}

DecThresholds == {0, 10000, 10100}

\* Token -> word alignment: None for a structural token, else a word index
DecWordIds == {<<>>} \cup {<<w>> : w \in 0..(Len(DecWords) - 1)}

\* An inference result of n tokens over the words of the page
InferenceResult(p, c, w) ==
    [predictions |-> p, confidence_scores |-> c, word_ids |-> w,
     words |-> DecWords, boxes |-> DecBoxes]

DecOff ==
    /\ dec_result = <<>>
    /\ dec_threshold = 0
    /\ dec_idx = 0
    /\ dec_processed = {}
    /\ dec_entities = <<>>
    /\ dec_pc = "off"

DecInit ==
    /\ \E n \in 0..MaxTokens :
          \E p \in [1..n -> DecPredictions], c \in [1..n -> DecConfidences],
             w \in [1..n -> DecWordIds] :
              dec_result = InferenceResult(p, c, w)
    /\ dec_threshold \in DecThresholds
    /\ dec_idx = 0
    /\ dec_processed = {}
    /\ dec_entities = <<>>
    /\ dec_pc = "loop"

\* postprocess.py:49-83, one iteration
DecIterate ==
    /\ dec_pc = "loop"
    /\ dec_idx < NumTokens(dec_result)
    /\ LET st == DecLoopBody([processed_words |-> dec_processed, entities |-> dec_entities],
                             dec_result, dec_idx, dec_threshold)
       IN /\ dec_processed' = st.processed_words
          /\ dec_entities' = st.entities
    /\ dec_idx' = dec_idx + 1
    /\ UNCHANGED <<dec_result, dec_threshold, dec_pc>>
    /\ UNCHANGED otherThanDec

\* postprocess.py:85-86
DecReturn ==
    /\ dec_pc = "loop"
    /\ dec_idx = NumTokens(dec_result)
    /\ dec_pc' = "done"
    /\ UNCHANGED <<dec_result, dec_threshold, dec_idx, dec_processed, dec_entities>>
    /\ UNCHANGED otherThanDec

-----------------------------------------------------------------------------
(* Box normalization (run_inference) and unnormalize_bbox *)

\* int(a / b) for integers a and b > 0: Python's true division followed by
\* int(), which truncates toward zero.  The float quotient of two integers
\* below 2^31 is within 2^-53 (relative) of the exact one, which is an integer
\* or at least 1/b away from one, so the truncation is that of the exact
\* quotient.
IntDiv(a, b) == IF a >= 0 THEN a \div b ELSE -((-a) \div b)

NormalizeCoordFloor(coord, dimension) == (1000 * coord) \div dimension

\* inference.py:52-55  int(1000 * x1 / width)
NormalizeCoord(coord, dimension) == IntDiv(1000 * coord, dimension)

\* inference.py:48-56  one box of normalized_boxes; size is (width, height)
NormalizeBox(box, size) ==
    << NormalizeCoord(box[1], size[1]), NormalizeCoord(box[2], size[2]),
       NormalizeCoord(box[3], size[1]), NormalizeCoord(box[4], size[2]) >>

\* postprocess.py:198-201  int(bbox[0] * image_width / 1000)
UnnormalizeCoord(coord, dimension) == IntDiv(coord * dimension, 1000)

unnormalize_bbox_swapped(bbox, image_width, image_height) ==
    [x1 |-> UnnormalizeCoord(bbox[1], image_height),
     y1 |-> UnnormalizeCoord(bbox[2], image_width),
     x2 |-> UnnormalizeCoord(bbox[3], image_height),
     y2 |-> UnnormalizeCoord(bbox[4], image_width)]

\* postprocess.py:181-202  unnormalize_bbox
unnormalize_bbox(bbox, image_width, image_height) ==
    [x1 |-> UnnormalizeCoord(bbox[1], image_width),
     y1 |-> UnnormalizeCoord(bbox[2], image_height),
     x2 |-> UnnormalizeCoord(bbox[3], image_width),
     y2 |-> UnnormalizeCoord(bbox[4], image_height)]

\* Pixel coordinates of a box: just outside the image (OCR boxes are not
\* clamped, easyocr_engine.py:59-67), its origin, and inside it
BoxCoords == {-1, 0, 1, 3, 50, 70, 120, 599}

\* Image sizes (width, height)
BoxSizes == { <<600, 400>>, <<1000, 1000>>, <<1999, 2000>> }

BoxOff ==
    /\ nb_box = <<>>
    /\ nb_size = <<>>
    /\ nb_normalized = <<>>
    /\ nb_restored = <<>>
    /\ nb_pc = "off"

ImgOff ==
    /\ img_source = <<>>
    /\ img_max_size = 0
    /\ img_validate = FALSE
    /\ img_image = <<>>
    /\ img_error = <<>>
    /\ img_pc = "off"

ExpOff ==
    /\ ex_fn = ""
    /\ ex_result = <<>>
    /\ ex_format = ""
    /\ ex_pretty = FALSE
    /\ ex_output = <<>>
    /\ ex_error = <<>>
    /\ ex_pc = "off"

LdOff ==
    /\ ld_model_cache = <<>>
    /\ ld_processor_cache = <<>>
    /\ ld_loads = 0
    /\ ld_history = <<>>
    /\ ld_ret = <<>>
    /\ ld_calls = 0
    /\ ld_pc = "off"

OcOff ==
    /\ oc_cfg = <<>>
    /\ oc_engine = <<>>
    /\ oc_adapters = 0
    /\ oc_readers = 0
    /\ oc_ret = <<>>
    /\ oc_calls = 0
    /\ oc_pc = "off"

SvOff ==
    /\ sv_processor = <<>>
    /\ sv_made = 0
    /\ sv_engines = {}
    /\ sv_threshold = 0
    /\ sv_callers = <<>>
    /\ sv_pc = "off"

FoOff ==
    /\ fo_entities = <<>>
    /\ fo_output = <<>>
    /\ fo_pc = "off"

LateOff == LdOff /\ OcOff /\ SvOff /\ FoOff

\* A pixel box (x2 > x1, y2 > y1) and the size of its image
BoxInit ==
    /\ \E x1, y1, x2, y2 \in BoxCoords :
          /\ x1 < x2
          /\ y1 < y2
          /\ nb_box = <<x1, y1, x2, y2>>
    /\ nb_size \in BoxSizes
    /\ nb_normalized = <<>>
    /\ nb_restored = <<>>
    /\ nb_pc = "start"

\* inference.py:46-56  the box is normalized to the 0-1000 space
NbNormalize ==
    /\ nb_pc = "start"
    /\ nb_normalized' = <<NormalizeBox(nb_box, nb_size)>>
    /\ nb_pc' = "normalized"
    /\ UNCHANGED <<nb_box, nb_size, nb_restored>>
    /\ UNCHANGED otherThanBox

\* postprocess.py:181-202  unnormalize_bbox is applied to the normalized box
NbUnnormalize ==
    /\ nb_pc = "normalized"
    /\ nb_restored' = <<unnormalize_bbox(nb_normalized[1], nb_size[1], nb_size[2])>>
    /\ nb_pc' = "done"
    /\ UNCHANGED <<nb_box, nb_size, nb_normalized>>
    /\ UNCHANGED otherThanBox

-----------------------------------------------------------------------------
(* Values the DocumentProcessor works on *)

Exception(type, msg) == [type |-> type, msg |-> msg]

\* Python round(x, 3) on a confidence: to the nearest thousandth (10 units)
Round3(c) == ((c + 5) \div 10) * 10

\* Python round(x, 2) on a time in ms, kept in microseconds: to the nearest 10
Round2(t) == ((t + 5) \div 10) * 10

\* Time one stage takes, in microseconds: what time.time() advances by
StageTime(stage) == IF stage = "inference" THEN 41237 ELSE 1234

\* The documents behind the image sources: what the decoder, the OCR engine and
\* the model (the external collaborators) make of each.
Docs == {"form", "letter", "blank", "tiny"}

\* Decoded size (width, height) of the document's image
DocSize(doc) ==
    CASE doc = "form"   -> <<600, 400>>
      [] doc = "letter" -> <<800, 600>>
      [] doc = "blank"  -> <<400, 300>>
      [] doc = "tiny"   -> <<50, 50>>

OCRResult(text, bbox, confidence) == [text |-> text, bbox |-> bbox, confidence |-> confidence]

\* What extract_text finds on the document's image
DocOcr(doc) ==
    CASE doc = "form" ->
            << OCRResult("Name:", <<50, 50, 120, 70>>, 9500),
               OCRResult("John", <<150, 50, 190, 70>>, 9200),
               OCRResult("Doe", <<195, 50, 280, 70>>, 9300) >>
      [] doc = "letter" ->
            << OCRResult("INVOICE", <<300, 20, 500, 60>>, 9900),
               OCRResult("draft", <<520, 20, 560, 60>>, 8000) >>
      [] OTHER -> <<>>

\* What the model predicts per token of the encoded document
DocModel(doc) ==
    CASE doc = "form" ->
            [predictions |-> <<0, 3, 5, 6, 6, 0>>,
             confidence_scores |-> <<9000, 9512, 9234, 4100, 9107, 8800>>,
             word_ids |-> << <<>>, <<0>>, <<1>>, <<1>>, <<2>>, <<>> >>]
      [] doc = "letter" ->
            [predictions |-> <<0, 1, 2, 0>>,
             confidence_scores |-> <<9900, 8846, 3120, 9900>>,
             word_ids |-> << <<>>, <<0>>, <<1>>, <<>> >>]
      [] OTHER ->
            [predictions |-> <<0, 0>>, confidence_scores |-> <<9900, 9900>>,
             word_ids |-> << <<>>, <<>> >>]

\* Stages of process_image, in the order of the code
Stages == <<"initialize", "preprocess", "ocr", "inference", "decode", "aggregate", "format">>

\* An image source: the document it shows and the stage, if any, at which the
\* environment raises while this source is processed.
Source(doc, fault) == [doc |-> doc, fault |-> fault]

SourcePool ==
    { Source("form", "none"), Source("letter", "none"), Source("blank", "none"),
      Source("tiny", "none"),
      Source("form", "ocr"), Source("form", "inference"),
      Source("letter", "decode"), Source("letter", "aggregate") }

\* A PDF file: unreadable, or the page images the rasterizer yields
PdfPool ==
    { [readable |-> FALSE, pages |-> <<>>] }
      \cup { [readable |-> TRUE, pages |-> ps] : ps \in SeqsUpTo(SourcePool, MaxPages) }

\* The message of the exception the environment raises at a faulted stage
FaultMessage(stage) ==
    CASE stage = "ocr"       -> "CUDA out of memory"
      [] stage = "inference" -> "Inference failed: model not available"
      [] stage = "decode"    -> "out of memory"
      [] stage = "aggregate" -> "out of memory"

FaultType(stage) == IF stage = "inference" THEN "InferenceError" ELSE "RuntimeError"

-----------------------------------------------------------------------------
(* Image preprocessing, as far as the pipeline needs it *)

\* image_utils.py:21-22
MAX_DIMENSION == 10000

MIN_DIMENSION == 100

\* document_processor.py:73 calls preprocess_image with the default max_size
DefaultMaxSize == 2000

\* image_utils.py:19
SUPPORTED_FORMATS == {"PNG", "JPEG", "JPG", "TIFF", "BMP", "GIF"}

\* A decoded PIL image, as far as the pipeline looks at it: size (width,
\* height), mode, and format (<<>> is None: the image was not read from a file)
Image(size, mode, format) == [size |-> size, mode |-> mode, format |-> format]

\* image_utils.py:54-58  load_image on a decodable source: Image.convert
\* returns a new image, whose format is None
LoadImage(img) ==
    IF img.mode # "RGB" THEN Image(img.size, "RGB", <<>>) ELSE img

\* f"{width}x{height}" of the messages of validate_image
Dimensions(width, height) == ToString(width) \o "x" \o ToString(height)

ValidateImageSmallFirst(img) ==
    IF img.size[1] < MIN_DIMENSION \/ img.size[2] < MIN_DIMENSION
    THEN <<Exception("InvalidImageError", "Image dimensions below minimum")>>
    ELSE IF img.size[1] > MAX_DIMENSION \/ img.size[2] > MAX_DIMENSION
         THEN <<Exception("ImageTooLargeError", "Image dimensions exceed maximum")>>
         ELSE <<>>

\* image_utils.py:67-95  validate_image: <<>> when the image passes, else the
\* exception raised.  Decoded formats are upper-case names already, which
\* upper() leaves as they are; the order in which the message lists the
\* supported formats is that of a Python set and is not modelled.
ValidateImage(img) ==
    LET width == img.size[1]
        height == img.size[2]
    IN IF width > MAX_DIMENSION \/ height > MAX_DIMENSION
       THEN <<Exception("ImageTooLargeError",
                        "Image dimensions (" \o Dimensions(width, height)
                           \o ") exceed maximum ("
                           \o Dimensions(MAX_DIMENSION, MAX_DIMENSION) \o ")")>>
       ELSE IF width < MIN_DIMENSION \/ height < MIN_DIMENSION
            THEN <<Exception("InvalidImageError",
                             "Image dimensions (" \o Dimensions(width, height)
                                \o ") below minimum ("
                                \o Dimensions(MIN_DIMENSION, MIN_DIMENSION) \o ")")>>
            ELSE IF img.format # <<>> /\ img.format[1] \notin SUPPORTED_FORMATS
                 THEN <<Exception("UnsupportedFormatError",
                                  "Unsupported format: " \o img.format[1])>>
                 ELSE <<>>

(* The arithmetic of resize_image is in IEEE-754 doubles:                   *)
(*     ratio = min(max_size / width, max_size / height)                     *)
(*     new_size = (int(width * ratio), int(height * ratio))                 *)
(* With longer = max(width, height) > max_size, ratio is the double nearest *)
(* to max_size / longer: m * 2^-e with 2^52 <= m <= 2^53.  The operators    *)
(* below compute, in integers, how far m is from max_size * 2^e / longer    *)
(* and what int() makes of the rounded product.                             *)

\* 2^n
RECURSIVE Pow2(_)
Pow2(n) == IF n = 0 THEN 1 ELSE 2 * Pow2(n - 1)

\* ratio = m * 2^-e, the double nearest to max_size / longer (ties to even):
\* e, and d = m * longer - max_size * 2^e, so that
\* x * ratio = x * max_size / longer + x * d / (longer * 2^e) exactly.
\* TimesPow2Mod(a, n, w) is (a * 2^n) mod w, ten doublings at a time;
\* RatioBinade(from) the k >= from with 2^-k <= max_size / longer < 2^-(k-1)
Ratio(max_size, longer) ==
    LET RECURSIVE TimesPow2Mod(_, _, _), RatioBinade(_)
        TimesPow2Mod(a, n, w) ==
            IF n = 0 THEN a % w
            ELSE IF n >= 10 THEN TimesPow2Mod((1024 * a) % w, n - 10, w)
                 ELSE TimesPow2Mod((2 * a) % w, n - 1, w)
        RatioBinade(from) ==
            IF max_size * Pow2(from) >= longer THEN from ELSE RatioBinade(from + 1)
        e == 52 + RatioBinade(1)
        r == TimesPow2Mod(max_size, e, longer)
        q_odd == TimesPow2Mod(max_size, e, 2 * longer) >= longer
        up == 2 * r > longer \/ (2 * r = longer /\ q_odd)
    IN [e |-> e, d |-> IF up THEN longer - r ELSE -r]

\* int(x * ratio), for 1 <= x <= longer.  When x * max_size / longer is not an
\* integer it is at least 1 / longer away from one, far more than the error
\* of ratio and of the product's rounding, and int() gives its floor.  When
\* it is an integer n, the exact product is n + x * d / (longer * 2^e); it
\* rounds to n unless it lies more than half a unit in the last place
\* (2^(E - 53), E the exponent just below n) under n, and then int() gives
\* n - 1.  ExponentBelow(from) is the largest E >= from with 2^E < n, n >= 2.
IntOfProduct(x, max_size, longer) ==
    LET n == (x * max_size) \div longer
        ratio == Ratio(max_size, longer)
        RECURSIVE ExponentBelow(_)
        ExponentBelow(from) ==
            IF Pow2(from + 1) < n THEN ExponentBelow(from + 1) ELSE from
    IN IF (x * max_size) % longer # 0 \/ ratio.d >= 0
       THEN n
       ELSE IF n = 1
            THEN IF 4 * x * (-ratio.d) <= longer * Pow2(ratio.e - 52) THEN n ELSE n - 1
            ELSE IF 2 * x * (-ratio.d)
                       <= longer * Pow2(ratio.e + ExponentBelow(0) - 52)
                 THEN n
                 ELSE n - 1

\* image_utils.py:114-127  resize_image with maintain_aspect: the new size
ResizeImage(size, max_size) ==
    IF size[1] <= max_size /\ size[2] <= max_size
    THEN size
    ELSE LET longer == Max2(size[1], size[2])
         IN << IntOfProduct(size[1], max_size, longer),
               IntOfProduct(size[2], max_size, longer) >>

\* image_utils.py:146-156  preprocess_image on a decodable source:
\* [ok, image] or [ok, error]; Image.resize returns a new image
Preprocess(source_image, max_size, validate) ==
    LET loaded == LoadImage(source_image)
        bad == IF validate THEN ValidateImage(loaded) ELSE <<>>
        new_size == ResizeImage(loaded.size, max_size)
    IN IF bad # <<>>
       THEN [ok |-> FALSE, error |-> bad[1]]
       ELSE [ok |-> TRUE,
             image |-> IF new_size = loaded.size THEN loaded
                       ELSE Image(new_size, loaded.mode, <<>>)]

\* Decoded sources: widths and heights around the floor of 100, the caps of
\* 1000 and 2000 and the ceiling of 10000; every colour mode that is converted
\* and the one that is not; as format None (an image built in memory) or the
\* name of the decoder
ImgSources ==
    { Image(<<width, height>>, mode, format) :
          width \in {99, 100, 500, 2000, 2105, 10000, 10001},
          height \in {99, 100, 300, 1000, 3000, 10001},
          mode \in {"RGB", "L", "RGBA"},
          format \in { <<>>, <<"PNG">>, <<"JPEG">>, <<"WEBP">> } }

\* Values of max_size: the default, and the one of the unit tests
ImgMaxSizes == {DefaultMaxSize, 1000}

\* preprocess_image(source, max_size, validate) is entered
ImgInit ==
    /\ img_source \in ImgSources
    /\ img_max_size \in ImgMaxSizes
    /\ img_validate \in BOOLEAN
    /\ img_image = <<>>
    /\ img_error = <<>>
    /\ img_pc = "load"

\* image_utils.py:146-147  image = load_image(source)
ImgLoad ==
    /\ img_pc = "load"
    /\ img_image' = <<LoadImage(img_source)>>
    /\ img_pc' = IF img_validate THEN "validate" ELSE "resize"
    /\ UNCHANGED <<img_source, img_max_size, img_validate, img_error>>
    /\ UNCHANGED otherThanImg

\* image_utils.py:149-151  if validate: validate_image(image)
ImgValidate ==
    /\ img_pc = "validate"
    /\ LET bad == ValidateImage(img_image[1]) IN
       IF bad # <<>>
       THEN /\ img_error' = bad
            /\ img_image' = <<>>
            /\ img_pc' = "raised"
       ELSE /\ img_pc' = "resize"
            /\ UNCHANGED <<img_image, img_error>>
    /\ UNCHANGED <<img_source, img_max_size, img_validate>>
    /\ UNCHANGED otherThanImg

\* image_utils.py:153-156  image = resize_image(image, max_size); return image
ImgResize ==
    /\ img_pc = "resize"
    /\ LET new_size == ResizeImage(img_image[1].size, img_max_size) IN
       img_image' = IF new_size = img_image[1].size THEN img_image
                    ELSE <<Image(new_size, img_image[1].mode, <<>>)>>
    /\ img_pc' = "done"
    /\ UNCHANGED <<img_source, img_max_size, img_validate, img_error>>
    /\ UNCHANGED otherThanImg

\* What the source of the document decodes to
DocImage(doc) == Image(DocSize(doc), "RGB", <<"PNG">>)

\* document_processor.py:73  preprocess_image(image_source): [ok, size] or
\* [ok, error]
PreprocessImage(src) ==
    LET r == Preprocess(DocImage(src.doc), DefaultMaxSize, TRUE)
    IN IF r.ok THEN [ok |-> TRUE, size |-> r.image.size]
       ELSE [ok |-> FALSE, error |-> r.error]

-----------------------------------------------------------------------------
(* run_inference and format_output *)

\* inference.py:43-56, 95-103: words, boxes and normalized boxes come from the
\* OCR results, the token fields from the model
RunInference(size, ocr, model) ==
    [predictions |-> model.predictions,
     confidence_scores |-> model.confidence_scores,
     word_ids |-> model.word_ids,
     words |-> [i \in 1..Len(ocr) |-> ocr[i].text],
     boxes |-> [i \in 1..Len(ocr) |-> ocr[i].bbox],
     normalized_boxes |-> [i \in 1..Len(ocr) |-> NormalizeBox(ocr[i].bbox, size)],
     image_size |-> size]

\* postprocess.py:140
ModelVersion == "layoutlmv3-funsd-v1"

\* postprocess.py:163-168  one entity of the output
EntityDict(e) ==
    [text |-> e.text, label |-> e.label, confidence |-> Round3(e.confidence), bbox |-> e.bbox]

\* postprocess.py:156-178  format_output
FormatOutput(ents, image_size, processing_time_ms, engine_name) ==
    [status |-> "success",
     processing_time_ms |-> Round2(processing_time_ms),
     results |-> << [page |-> 1,
                     entities |-> [i \in 1..Len(ents) |-> EntityDict(ents[i])]] >>,
     metadata |-> [model_version |-> ModelVersion,
                   ocr_engine |-> engine_name,
                   image_size |-> image_size]]

-----------------------------------------------------------------------------
(* DocumentProcessor *)

\* easyocr_engine.py:102-107  the engines the factory knows
KnownEngines == {"easyocr"}

\* config.py:16  ModelConfig.confidence_threshold = 0.5
DefaultThreshold == 5000

WrapReraise(e) == e

\* document_processor.py:120-121  except Exception as e: raise PipelineError(...)
WrapPipelineError(e) == Exception("PipelineError", "Pipeline failed: " \o e.msg)

WrapPdfErrorDropCause(e) == Exception("PipelineError", "PDF processing failed")

\* document_processor.py:166-167
WrapPdfError(e) == Exception("PipelineError", "PDF processing failed: " \o e.msg)

BatchAppendDropErrors(results, outcome) ==
    IF outcome.ok THEN Append(results, outcome.value) ELSE results

\* document_processor.py:181-188  the body of the batch loop, given what
\* process_image returned or raised
BatchAppend(results, outcome) ==
    IF outcome.ok
    THEN Append(results, outcome.value)
    ELSE Append(results, [status |-> "error", error |-> outcome.error.msg])

RenumberPageKeep(page_result, i) == page_result

\* document_processor.py:146-147  (i from 0)
RenumberPage(page_result, i) ==
    IF page_result.results # <<>>
    THEN [page_result EXCEPT !.results[1].page = i + 1]
    ELSE page_result

\* document_processor.py:153-162
CombinePdf(results, pages, processing_time, engine_name) ==
    [status |-> "success",
     processing_time_ms |-> Round2(processing_time),
     results |-> LET nonempty == SelectSeq(results, LAMBDA r : r.results # <<>>)
                 IN [i \in 1..Len(nonempty) |-> nonempty[i].results[1]],
     metadata |-> [model_version |-> ModelVersion,
                   ocr_engine |-> engine_name,
                   total_pages |-> Len(pages)]]

\* easyocr_engine.py:31-39  EasyOCREngine.initialize: the engine afterwards, or
\* the exception
EngineInitialize(engine, easyocr_ok) ==
    IF easyocr_ok
    THEN [ok |-> TRUE, engine |-> [engine EXCEPT !.reader = TRUE]]
    ELSE [ok |-> FALSE, engine |-> engine,
          error |-> Exception("OCREngineError",
                              "Failed to initialize EasyOCR: No module named 'easyocr'")]

\* document_processor.py:39-53  DocumentProcessor.initialize: the fields
\* afterwards, and the exception if one is raised
Initialize(old_engine, engine_name, easyocr_ok) ==
    IF engine_name \notin KnownEngines
    THEN [ok |-> FALSE, device |-> <<"cpu">>, ocr_engine |-> old_engine,
          error |-> Exception("ValueError", "Unknown OCR engine: " \o engine_name)]
    ELSE LET r == EngineInitialize([reader |-> FALSE], easyocr_ok)
         IN IF r.ok
            THEN [ok |-> TRUE, device |-> <<"cpu">>, ocr_engine |-> <<r.engine>>]
            ELSE [ok |-> FALSE, device |-> <<"cpu">>, ocr_engine |-> <<r.engine>>,
                  error |-> r.error]

ProcOff ==
    /\ cfg = [engine |-> "easyocr", easyocr_ok |-> TRUE]
    /\ confidence_threshold = DefaultThreshold
    /\ shutdowns = 0
    /\ ocr_engine = <<>>
    /\ device = <<>>
    /\ op = "off"
    /\ pc = "none"
    /\ source = <<>>
    /\ image = <<>>
    /\ ocr_results = <<>>
    /\ inference_result = <<>>
    /\ entities = <<>>
    /\ clock = 0
    /\ start_time = 0
    /\ stages = <<>>
    /\ batch_sources = <<>>
    /\ batch_results = <<>>
    /\ pdf = <<>>
    /\ all_results = <<>>
    /\ pi_log = <<>>
    /\ ret = <<>>

\* document_processor.py:28-37  a new DocumentProcessor, in an environment where
\* the configured engine is known or not and EasyOCR can be loaded or not
Init ==
    /\ cfg \in { [engine |-> "easyocr", easyocr_ok |-> TRUE],
                 [engine |-> "easyocr", easyocr_ok |-> FALSE],
                 [engine |-> "tesseract", easyocr_ok |-> TRUE] }
    /\ confidence_threshold = DefaultThreshold
    /\ shutdowns = 0
    /\ ocr_engine = <<>>
    /\ device = <<>>
    /\ op = "idle"
    /\ pc = "none"
    /\ source = <<>>
    /\ image = <<>>
    /\ ocr_results = <<>>
    /\ inference_result = <<>>
    /\ entities = <<>>
    /\ clock = 0
    /\ start_time = 0
    /\ stages = <<>>
    /\ batch_sources = <<>>
    /\ batch_results = <<>>
    /\ pdf = <<>>
    /\ all_results = <<>>
    /\ pi_log = <<>>
    /\ ret = <<>>
    /\ AggOff
    /\ DecOff
    /\ BoxOff
    /\ ImgOff
    /\ ExpOff
    /\ LateOff

\* A public method is entered: the history of the previous call is dropped.
EnterCall(name, srcs, file) ==
    /\ op = "idle"
    /\ op' = name
    /\ clock' = 0
    /\ start_time' = 0
    /\ pi_log' = <<>>
    /\ ret' = <<>>
    /\ batch_sources' = srcs
    /\ batch_results' = <<>>
    /\ pdf' = file
    /\ all_results' = <<>>

\* process_image is entered on `src` at time `now` (document_processor.py:65)
EnterProcessImage(src, now) ==
    /\ pc' = "ensure_init"
    /\ source' = <<src>>
    /\ start_time' = now
    /\ stages' = <<>>

\* What is on record of a finished process_image call: its source, its outcome
\* and the stages it ran.
LogEntry(outcome, src, ran) ==
    IF outcome.ok
    THEN [src |-> src, ok |-> TRUE, value |-> outcome.value, stages |-> ran]
    ELSE [src |-> src, ok |-> FALSE, error |-> outcome.error, stages |-> ran]

\* process_image hands `outcome` (a result or a PipelineError) to its caller:
\* the application (op = "image"), the batch loop (document_processor.py:182-188)
\* or the page loop (document_processor.py:143-149, 166-167).
Leave(outcome) ==
    /\ pc' = "none"
    /\ image' = <<>>
    /\ ocr_results' = <<>>
    /\ inference_result' = <<>>
    /\ entities' = <<>>
    /\ pi_log' = Append(pi_log, LogEntry(outcome, source[1], stages'))
    /\ CASE op = "image" ->
              /\ op' = "done"
              /\ ret' = <<[outcome EXCEPT !.src = "image"]>>
              /\ UNCHANGED <<batch_results, all_results>>
         [] op = "batch" ->
              /\ batch_results' = BatchAppend(batch_results, outcome)
              /\ UNCHANGED <<op, ret, all_results>>
         [] op = "pdf" ->
              IF outcome.ok
              THEN /\ all_results' = Append(all_results,
                                            RenumberPage(outcome.value, Len(all_results)))
                   /\ UNCHANGED <<op, ret, batch_results>>
              ELSE /\ op' = "done"
                   /\ ret' = <<[src |-> "pdf", ok |-> FALSE,
                                error |-> WrapPdfError(outcome.error)]>>
                   /\ UNCHANGED <<batch_results, all_results>>

\* process_image returns `value` (document_processor.py:83, 118)
Return(value) == Leave([src |-> "", ok |-> TRUE, value |-> value])

\* A stage raised `e` inside the try block (document_processor.py:120-121)
Raise(e) == Leave([src |-> "", ok |-> FALSE, error |-> WrapPipelineError(e)])

\* The stage runs: time passes and the stage is on record.
RunStage(stage) ==
    /\ stages' = Append(stages, stage)
    /\ clock' = clock + StageTime(stage)

\* The environment raises at this stage for the source being processed.
Faulted(stage) == source[1].fault = stage

\* processor.process_image(src), called by the application
CallProcessImage ==
    /\ op = "idle"
    /\ \E src \in SourcePool :
        /\ EnterCall("image", <<>>, <<>>)
        /\ EnterProcessImage(src, 0)
        /\ UNCHANGED <<cfg, shutdowns, confidence_threshold, ocr_engine, device, image, ocr_results,
                       inference_result, entities>>
        /\ UNCHANGED otherThanProc

NeedsInitializeAlways(engine) == TRUE

\* document_processor.py:69  `if self._ocr_engine is None`
NeedsInitialize(engine) == engine = <<>>

\* document_processor.py:68-70  `if self._ocr_engine is None: self.initialize()`
PiEnsureInit ==
    /\ pc = "ensure_init"
    /\ IF ~NeedsInitialize(ocr_engine)
       THEN /\ pc' = "preprocess"
            /\ UNCHANGED <<ocr_engine, device, stages, clock, op, ret, image, ocr_results,
                           inference_result, entities, batch_results, all_results, pi_log>>
       ELSE LET r == Initialize(ocr_engine, cfg.engine, cfg.easyocr_ok) IN
            /\ RunStage("initialize")
            /\ device' = r.device
            /\ ocr_engine' = r.ocr_engine
            /\ IF r.ok
               THEN /\ pc' = "preprocess"
                    /\ UNCHANGED <<op, ret, image, ocr_results, inference_result, entities,
                                   batch_results, all_results, pi_log>>
               ELSE Raise(r.error)
    /\ UNCHANGED <<cfg, shutdowns, confidence_threshold, source, start_time, batch_sources, pdf>>
    /\ UNCHANGED otherThanProc

\* document_processor.py:72-74  image = preprocess_image(image_source)
PiPreprocess ==
    /\ pc = "preprocess"
    /\ RunStage("preprocess")
    /\ LET r == PreprocessImage(source[1]) IN
       IF r.ok
       THEN /\ image' = <<r.size>>
            /\ pc' = "ocr"
            /\ UNCHANGED <<op, ret, ocr_results, inference_result, entities,
                           batch_results, all_results, pi_log>>
       ELSE Raise(r.error)
    /\ UNCHANGED <<cfg, shutdowns, confidence_threshold, ocr_engine, device, source, start_time,
                   batch_sources, pdf>>
    /\ UNCHANGED otherThanProc

\* document_processor.py:76-78  ocr_results = self._ocr_engine.extract_text(image);
\* easyocr_engine.py:51-52: extract_text initializes a reader that is not there
PiOcr ==
    /\ pc = "ocr"
    /\ RunStage("ocr")
    /\ LET r == IF ocr_engine[1].reader
                THEN [ok |-> TRUE, engine |-> ocr_engine[1]]
                ELSE EngineInitialize(ocr_engine[1], cfg.easyocr_ok)
       IN /\ ocr_engine' = <<r.engine>>
          /\ IF ~r.ok THEN Raise(r.error)
             ELSE IF Faulted("ocr")
                  THEN Raise(Exception(FaultType("ocr"), FaultMessage("ocr")))
                  ELSE /\ ocr_results' = DocOcr(source[1].doc)
                       /\ pc' = "post_ocr"
                       /\ UNCHANGED <<op, ret, image, inference_result, entities,
                                      batch_results, all_results, pi_log>>
    /\ UNCHANGED <<cfg, shutdowns, confidence_threshold, device, source, start_time,
                   batch_sources, pdf>>
    /\ UNCHANGED otherThanProc

OcrFoundNothingNever(results) == FALSE

\* document_processor.py:81  `if not ocr_results`
OcrFoundNothing(results) == results = <<>>

\* document_processor.py:81-88  the empty-OCR return
PiReturnEmpty ==
    /\ pc = "post_ocr"
    /\ OcrFoundNothing(ocr_results)
    /\ RunStage("format")
    /\ Return(FormatOutput(<<>>, image[1], clock - start_time, cfg.engine))
    /\ UNCHANGED <<cfg, shutdowns, confidence_threshold, ocr_engine, device, source, start_time,
                   batch_sources, pdf>>
    /\ UNCHANGED otherThanProc

\* document_processor.py:90-97  inference_result = run_inference(...)
PiInference ==
    /\ pc = "post_ocr"
    /\ ~OcrFoundNothing(ocr_results)
    /\ RunStage("inference")
    /\ IF Faulted("inference")
       THEN Raise(Exception(FaultType("inference"), FaultMessage("inference")))
       ELSE /\ inference_result' = <<RunInference(image[1], ocr_results,
                                                   DocModel(source[1].doc))>>
            /\ pc' = "decode"
            /\ UNCHANGED <<op, ret, image, ocr_results, entities, batch_results,
                           all_results, pi_log>>
    /\ UNCHANGED <<cfg, shutdowns, confidence_threshold, ocr_engine, device, source, start_time,
                   batch_sources, pdf>>
    /\ UNCHANGED otherThanProc

\* document_processor.py:99-103  entities = process_predictions(...)
PiDecode ==
    /\ pc = "decode"
    /\ RunStage("decode")
    /\ IF Faulted("decode")
       THEN Raise(Exception(FaultType("decode"), FaultMessage("decode")))
       ELSE /\ entities' = ProcessPredictions(inference_result[1], confidence_threshold)
            /\ pc' = "aggregate"
            /\ UNCHANGED <<op, ret, image, ocr_results, inference_result, batch_results,
                           all_results, pi_log>>
    /\ UNCHANGED <<cfg, shutdowns, confidence_threshold, ocr_engine, device, source, start_time,
                   batch_sources, pdf>>
    /\ UNCHANGED otherThanProc

\* document_processor.py:105-106  entities = aggregate_entities(entities)
PiAggregate ==
    /\ pc = "aggregate"
    /\ RunStage("aggregate")
    /\ IF Faulted("aggregate")
       THEN Raise(Exception(FaultType("aggregate"), FaultMessage("aggregate")))
       ELSE /\ entities' = AggregateEntities(entities)
            /\ pc' = "format"
            /\ UNCHANGED <<op, ret, image, ocr_results, inference_result, batch_results,
                           all_results, pi_log>>
    /\ UNCHANGED <<cfg, shutdowns, confidence_threshold, ocr_engine, device, source, start_time,
                   batch_sources, pdf>>
    /\ UNCHANGED otherThanProc

\* document_processor.py:108-118  result = format_output(...); return result
PiReturn ==
    /\ pc = "format"
    /\ RunStage("format")
    /\ Return(FormatOutput(entities, image[1], clock - start_time, cfg.engine))
    /\ UNCHANGED <<cfg, shutdowns, confidence_threshold, ocr_engine, device, source, start_time,
                   batch_sources, pdf>>
    /\ UNCHANGED otherThanProc

\* processor.process_batch(sources), called by the application
\* (document_processor.py:179)
CallProcessBatch ==
    /\ op = "idle"
    /\ \E n \in 0..MaxBatch : \E srcs \in [1..n -> SourcePool] :
        /\ EnterCall("batch", srcs, <<>>)
        /\ source' = <<>>
        /\ stages' = <<>>
        /\ UNCHANGED <<cfg, shutdowns, confidence_threshold, ocr_engine, device, pc, image,
                       ocr_results, inference_result, entities>>
        /\ UNCHANGED otherThanProc

\* document_processor.py:180-182  the loop takes the next source and calls
\* process_image on it
BatchNextItem ==
    /\ op = "batch"
    /\ pc = "none"
    /\ Len(pi_log) < Len(batch_sources)
    /\ EnterProcessImage(batch_sources[Len(pi_log) + 1], clock)
    /\ UNCHANGED <<cfg, shutdowns, confidence_threshold, ocr_engine, device, op, image, ocr_results,
                   inference_result, entities, clock, batch_sources, batch_results, pdf,
                   all_results, pi_log, ret>>
    /\ UNCHANGED otherThanProc

\* document_processor.py:189  return results, the loop being over
BatchReturn ==
    /\ op = "batch"
    /\ pc = "none"
    /\ Len(pi_log) = Len(batch_sources)
    /\ op' = "done"
    /\ ret' = <<[src |-> "batch", ok |-> TRUE, value |-> batch_results]>>
    /\ UNCHANGED <<cfg, shutdowns, confidence_threshold, ocr_engine, device, pc, source, image,
                   ocr_results, inference_result, entities, clock, start_time, stages,
                   batch_sources, batch_results, pdf, all_results, pi_log>>
    /\ UNCHANGED otherThanProc

\* processor.process_pdf(path), called by the application
\* (document_processor.py:134)
CallProcessPdf ==
    /\ op = "idle"
    /\ \E file \in PdfPool :
        /\ EnterCall("pdf", <<>>, <<file>>)
        /\ pc' = "load_pdf"
        /\ source' = <<>>
        /\ stages' = <<>>
        /\ UNCHANGED <<cfg, shutdowns, confidence_threshold, ocr_engine, device, image,
                       ocr_results, inference_result, entities>>
        /\ UNCHANGED otherThanProc

\* document_processor.py:137-141  pages = load_pdf_pages(pdf_path, dpi);
\* image_utils.py:190-191 raises InvalidImageError for a file it cannot read
PdfLoadPages ==
    /\ op = "pdf"
    /\ pc = "load_pdf"
    /\ clock' = clock + StageTime("load_pdf")
    /\ pc' = "none"
    /\ IF pdf[1].readable
       THEN UNCHANGED <<op, ret>>
       ELSE /\ op' = "done"
            /\ ret' = <<[src |-> "pdf", ok |-> FALSE,
                         error |-> WrapPdfError(Exception("InvalidImageError",
                                      "Failed to load PDF: cannot open file"))]>>
    /\ UNCHANGED <<cfg, shutdowns, confidence_threshold, ocr_engine, device, source, image,
                   ocr_results, inference_result, entities, start_time, stages,
                   batch_sources, batch_results, pdf, all_results, pi_log>>
    /\ UNCHANGED otherThanProc

\* document_processor.py:142-143  the loop takes the next page and calls
\* process_image on it
PdfNextPage ==
    /\ op = "pdf"
    /\ pc = "none"
    /\ Len(pi_log) < Len(pdf[1].pages)
    /\ EnterProcessImage(pdf[1].pages[Len(pi_log) + 1], clock)
    /\ UNCHANGED <<cfg, shutdowns, confidence_threshold, ocr_engine, device, op, image, ocr_results,
                   inference_result, entities, clock, batch_sources, batch_results, pdf,
                   all_results, pi_log, ret>>
    /\ UNCHANGED otherThanProc

\* document_processor.py:151-164  combine the page results and return
PdfReturn ==
    /\ op = "pdf"
    /\ pc = "none"
    /\ Len(pi_log) = Len(pdf[1].pages)
    /\ op' = "done"
    /\ ret' = <<[src |-> "pdf", ok |-> TRUE,
                 value |-> CombinePdf(all_results, pdf[1].pages, clock, cfg.engine)]>>
    /\ UNCHANGED <<cfg, shutdowns, confidence_threshold, ocr_engine, device, pc, source, image,
                   ocr_results, inference_result, entities, clock, start_time, stages,
                   batch_sources, batch_results, pdf, all_results, pi_log>>
    /\ UNCHANGED otherThanProc

\* Nothing of a processing call is on record.
ForgetLastCall ==
    /\ clock' = 0
    /\ start_time' = 0
    /\ pi_log' = <<>>
    /\ stages' = <<>>
    /\ source' = <<>>
    /\ batch_sources' = <<>>
    /\ batch_results' = <<>>
    /\ pdf' = <<>>
    /\ all_results' = <<>>

\* processor.initialize(), called by the application (document_processor.py:39-53)
CallInitialize ==
    /\ op = "idle"
    /\ LET r == Initialize(ocr_engine, cfg.engine, cfg.easyocr_ok) IN
       /\ device' = r.device
       /\ ocr_engine' = r.ocr_engine
       /\ ret' = IF r.ok THEN <<[src |-> "initialize", ok |-> TRUE, value |-> "None"]>>
                 ELSE <<[src |-> "initialize", ok |-> FALSE, error |-> r.error]>>
    /\ op' = "done"
    /\ ForgetLastCall
    /\ UNCHANGED <<cfg, shutdowns, confidence_threshold, pc, image, ocr_results,
                   inference_result, entities>>
    /\ UNCHANGED otherThanProc

EngineShutdownKeepReader(engine) == engine

\* easyocr_engine.py:80-83  EasyOCREngine.shutdown
EngineShutdown(engine) == [engine EXCEPT !.reader = FALSE]

\* processor.shutdown(), called by the application (document_processor.py:191-195)
CallShutdown ==
    /\ op = "idle"
    /\ shutdowns < MaxShutdowns
    /\ ocr_engine' = IF ocr_engine # <<>> THEN <<EngineShutdown(ocr_engine[1])>> ELSE ocr_engine
    /\ ret' = <<[src |-> "shutdown", ok |-> TRUE, value |-> "None"]>>
    /\ shutdowns' = shutdowns + 1
    /\ op' = "done"
    /\ ForgetLastCall
    /\ UNCHANGED <<cfg, confidence_threshold, device, pc, image, ocr_results,
                   inference_result, entities>>
    /\ UNCHANGED otherThanProc

\* The application takes what the call returned or raised; the processor is
\* ready for the next call.
TakeResult ==
    /\ op = "done"
    /\ op' = "idle"
    /\ ret' = <<>>
    /\ ForgetLastCall
    /\ UNCHANGED <<cfg, shutdowns, confidence_threshold, ocr_engine, device, pc, image, ocr_results,
                   inference_result, entities>>
    /\ UNCHANGED otherThanProc

Next ==
    \/ CallProcessImage \/ PiEnsureInit \/ PiPreprocess \/ PiOcr \/ PiReturnEmpty
    \/ PiInference \/ PiDecode \/ PiAggregate \/ PiReturn
    \/ CallProcessBatch \/ BatchNextItem \/ BatchReturn
    \/ CallProcessPdf \/ PdfLoadPages \/ PdfNextPage \/ PdfReturn
    \/ CallInitialize \/ CallShutdown \/ TakeResult

Spec == Init /\ [][Next]_vars

-----------------------------------------------------------------------------
(* core/pipeline/export.py *)

\* Floats are kept as integers n standing for n / 10^k: confidences with
\* k = 4, times in ms with k = 3.  Dicts are functions on their keys, listed
\* in the order in which format_output, process_pdf and process_batch insert
\* them.  Strings are looked at character by character; those of the results
\* are ASCII without control characters other than the line feed.

FloatReprOneDigit(n, k) ==
    LET unit == IF k = 4 THEN 1000 ELSE 100
    IN ToString(n \div (10 * unit)) \o "." \o ToString((n \div unit) % 10)

\* float.__repr__ of n / 10^k, which str(), json.dumps and csv.writer all use:
\* no trailing zero after the point, but at least one digit
FloatRepr(n, k) ==
    LET RECURSIVE Pow10(_), Digits(_, _), FractionDigits(_, _)
        Pow10(j) == IF j = 0 THEN 1 ELSE 10 * Pow10(j - 1)
        Digits(f, j) ==
            IF j = 1 THEN ToString(f) ELSE Digits(f \div 10, j - 1) \o ToString(f % 10)
        FractionDigits(f, j) ==
            IF j > 1 /\ f % 10 = 0 THEN FractionDigits(f \div 10, j - 1) ELSE Digits(f, j)
    IN ToString(n \div Pow10(k)) \o "." \o FractionDigits(n % Pow10(k), k)

RECURSIVE Join(_, _)
\* sep.join(strings)
Join(strings, sep) ==
    IF strings = <<>> THEN ""
    ELSE IF Len(strings) = 1 THEN strings[1]
         ELSE strings[1] \o sep \o Join(Tail(strings), sep)

RECURSIVE Flatten(_)
\* the lines of a sequence of blocks of lines
Flatten(blocks) == IF blocks = <<>> THEN <<>> ELSE Head(blocks) \o Flatten(Tail(blocks))

RECURSIVE Escape(_, _)
\* s with every character that `table` knows replaced by what it gives
Escape(s, table) ==
    IF s = "" THEN ""
    ELSE LET c == SubSeq(s, 1, 1)
         IN (IF c \in DOMAIN table THEN table[c] ELSE c)
               \o Escape(SubSeq(s, 2, Len(s)), table)

\* a block of lines, one level deeper: indent=2, indent="  "
Indent(lines) == [i \in 1..Len(lines) |-> "  " \o lines[i]]

\* the keys of `keys` that dict d has, in that order
Present(d, keys) == SelectSeq(keys, LAMBDA k : k \in DOMAIN d)

GetDefaultOnly(d, key, default) == default

\* d.get(key, default)
Get(d, key, default) == IF key \in DOMAIN d THEN d[key] ELSE default

\* str(d.get(key, 0)) where the value of key is a float n / 10^k
GetFloatStr(d, key, k) == IF key \in DOMAIN d THEN FloatRepr(d[key], k) ELSE "0"

\* What an exporter does: returns a string or raises
Returned(value) == [ok |-> TRUE, value |-> value]

Raised(e) == [ok |-> FALSE, error |-> e]

\* export.py:18-34  export_json: json.dumps(result, indent=2) when pretty,
\* json.dumps(result) otherwise.  A list or dict is encoded from its encoded
\* items, each a block of lines: with indent=2 one item per line and a comma
\* after each item but the last; with indent=None on one line, items
\* separated by ", ".
export_json(result, pretty) ==
    LET Container(open, close, items) ==
            IF items = <<>> THEN << open \o close >>
            ELSE IF pretty
                 THEN << open >>
                      \o Flatten([i \in 1..Len(items) |->
                             Indent([j \in 1..Len(items[i]) |->
                                 IF j = Len(items[i]) /\ i < Len(items)
                                 THEN items[i][j] \o "," ELSE items[i][j]])])
                      \o << close >>
                 ELSE << open \o Join([i \in 1..Len(items) |-> items[i][1]], ", ")
                              \o close >>
        Member(key, value) ==
            [j \in 1..Len(value) |->
                IF j = 1 THEN "\"" \o key \o "\": " \o value[j] ELSE value[j]]
        Object(d, keys, Value(_)) ==
            LET present == Present(d, keys)
            IN Container("{", "}",
                   [i \in 1..Len(present) |-> Member(present[i], Value(present[i]))])
        Str(s) ==
            << "\"" \o Escape(s, ("\"" :> "\\\"") @@ ("\\" :> "\\\\") @@ ("\n" :> "\\n")
                                  @@ ("\r" :> "\\r") @@ ("\t" :> "\\t")) \o "\"" >>
        Number(n) == << ToString(n) >>
        BBoxJson(bbox) ==
            Object(bbox, <<"x1", "y1", "x2", "y2">>, LAMBDA k : Number(bbox[k]))
        EntityJson(entity) ==
            Object(entity, <<"text", "label", "confidence", "bbox">>,
                   LAMBDA k : CASE k = "confidence" -> << FloatRepr(entity[k], 4) >>
                                [] k = "bbox" -> BBoxJson(entity[k])
                                [] OTHER -> Str(entity[k]))
        PageJson(page_result) ==
            Object(page_result, <<"page", "entities">>,
                   LAMBDA k : IF k = "page" THEN Number(page_result[k])
                              ELSE Container("[", "]",
                                       [i \in 1..Len(page_result[k]) |->
                                           EntityJson(page_result[k][i])]))
        MetadataJson(metadata) ==
            Object(metadata, <<"model_version", "ocr_engine", "image_size", "total_pages">>,
                   LAMBDA k : CASE k = "image_size" ->
                                       Container("[", "]",
                                           [i \in 1..Len(metadata[k]) |-> Number(metadata[k][i])])
                                [] k = "total_pages" -> Number(metadata[k])
                                [] OTHER -> Str(metadata[k]))
        ResultJson(d) ==
            Object(d, <<"status", "error", "processing_time_ms", "results", "metadata">>,
                   LAMBDA k : CASE k = "processing_time_ms" -> << FloatRepr(d[k], 3) >>
                                [] k = "results" ->
                                       Container("[", "]",
                                           [i \in 1..Len(d[k]) |-> PageJson(d[k][i])])
                                [] k = "metadata" -> MetadataJson(d[k])
                                [] OTHER -> Str(d[k]))
    IN Returned(IF result = <<>> THEN "null" ELSE Join(ResultJson(result[1]), "\n"))

\* export.py:37-75  export_csv: the header row, then one row per entity of
\* each page; result.get on None is an AttributeError.  csv.writer puts a
\* field that holds the delimiter, the quote or a line break between quotes
\* and doubles its quotes; it ends a row with "\r\n".
export_csv(result) ==
    LET Field(f) ==
            IF \E i \in 1..Len(f) : SubSeq(f, i, i) \in {",", "\"", "\r", "\n"}
            THEN "\"" \o Escape(f, "\"" :> "\"\"") \o "\""
            ELSE f
        Row(fields) == Join([i \in 1..Len(fields) |-> Field(fields[i])], ",") \o "\r\n"
        EntityRow(page_result, entity) ==
            LET bbox == Get(entity, "bbox", <<>>)
            IN Row(<< ToString(Get(page_result, "page", 1)),
                      Get(entity, "text", ""),
                      Get(entity, "label", ""),
                      GetFloatStr(entity, "confidence", 4),
                      ToString(Get(bbox, "x1", 0)),
                      ToString(Get(bbox, "y1", 0)),
                      ToString(Get(bbox, "x2", 0)),
                      ToString(Get(bbox, "y2", 0)) >>)
        PageRows(page_result) ==
            LET ents == Get(page_result, "entities", <<>>)
            IN [i \in 1..Len(ents) |-> EntityRow(page_result, ents[i])]
    IN IF result = <<>>
       THEN Raised(Exception("ExportError",
                "CSV export failed: 'NoneType' object has no attribute 'get'"))
       ELSE LET pages == Get(result[1], "results", <<>>)
            IN Returned(
                   Row(<<"page", "text", "label", "confidence", "x1", "y1", "x2", "y2">>)
                   \o Join(Flatten([p \in 1..Len(pages) |-> PageRows(pages[p])]), ""))

\* export.py:78-128  export_xml: the document as toprettyxml(indent="  ")
\* prints it, with the markup characters of a text escaped; the text of a
\* metadata element is str(value)
export_xml(result) ==
    LET Text(tag, text) ==
            IF text = "" THEN "<" \o tag \o "/>"
            ELSE "<" \o tag \o ">"
                 \o Escape(text, ("&" :> "&amp;") @@ ("<" :> "&lt;") @@ (">" :> "&gt;")
                                   @@ ("\"" :> "&quot;"))
                 \o "</" \o tag \o ">"
        Parent(tag, attributes, children) ==
            IF children = <<>> THEN << "<" \o tag \o attributes \o "/>" >>
            ELSE << "<" \o tag \o attributes \o ">" >>
                 \o Indent(children) \o << "</" \o tag \o ">" >>
        MetadataXml(metadata) ==
            LET present == Present(metadata,
                               <<"model_version", "ocr_engine", "image_size", "total_pages">>)
            IN Parent("metadata", "",
                   [i \in 1..Len(present) |->
                       Text(present[i],
                           CASE present[i] = "image_size" ->
                                    "[" \o Join([j \in 1..Len(metadata.image_size) |->
                                                   ToString(metadata.image_size[j])], ", ")
                                        \o "]"
                             [] present[i] = "total_pages" -> ToString(metadata.total_pages)
                             [] OTHER -> metadata[present[i]])])
        EntityXml(entity) ==
            LET bbox == Get(entity, "bbox", <<>>)
            IN Parent("entity", "",
                   << Text("text", Get(entity, "text", "")),
                      Text("label", Get(entity, "label", "")),
                      Text("confidence", GetFloatStr(entity, "confidence", 4)),
                      "<bbox x1=\"" \o ToString(Get(bbox, "x1", 0))
                         \o "\" y1=\"" \o ToString(Get(bbox, "y1", 0))
                         \o "\" x2=\"" \o ToString(Get(bbox, "x2", 0))
                         \o "\" y2=\"" \o ToString(Get(bbox, "y2", 0)) \o "\"/>" >>)
        PageXml(page_result) ==
            LET ents == Get(page_result, "entities", <<>>)
            IN Parent("page", " number=\"" \o ToString(Get(page_result, "page", 1)) \o "\"",
                   Flatten([i \in 1..Len(ents) |-> EntityXml(ents[i])]))
    IN IF result = <<>>
       THEN Raised(Exception("ExportError",
                "XML export failed: 'NoneType' object has no attribute 'get'"))
       ELSE LET d == result[1]
                pages == Get(d, "results", <<>>)
                lines == << "<?xml version=\"1.0\" ?>" >>
                         \o Parent("document", "",
                               MetadataXml(Get(d, "metadata", <<>>))
                               \o << Text("status", Get(d, "status", "")),
                                     Text("processing_time_ms",
                                          GetFloatStr(d, "processing_time_ms", 3)) >>
                               \o Parent("results", "",
                                      Flatten([p \in 1..Len(pages) |-> PageXml(pages[p])])))
            IN Returned(Join([i \in 1..Len(lines) |-> lines[i] \o "\n"], ""))

\* export.py:145-149  the keys of `exporters`
ExporterNames == <<"json", "csv", "xml">>

ExporterForAnyFormat(format) ==
    IF format = "csv" THEN <<"export_csv">>
    ELSE IF format = "xml" THEN <<"export_xml">>
    ELSE <<"export_json">>

\* export.py:145-154  exporters[format] if format is a key (<<>> if not)
ExporterFor(format) ==
    IF format = "json" THEN <<"export_json">>
    ELSE IF format = "csv" THEN <<"export_csv">>
    ELSE IF format = "xml" THEN <<"export_xml">>
    ELSE <<>>

\* export.py:151-152  the error of an unknown format
UnknownFormat(format) ==
    Exception("ExportError",
              "Unknown format: " \o format \o ". Supported: ['"
                 \o Join(ExporterNames, "', '") \o "']")

\* conftest.py:68-97  sample_processing_result
SampleProcessingResult ==
    [status |-> "success",
     processing_time_ms |-> 1234560,
     results |-> << [page |-> 1,
                     entities |-> << [text |-> "Name:", label |-> "QUESTION",
                                      confidence |-> 9500, bbox |-> BBox(50, 50, 120, 70)],
                                     [text |-> "John Doe", label |-> "ANSWER",
                                      confidence |-> 9200, bbox |-> BBox(150, 50, 280, 70)] >>] >>,
     metadata |-> [model_version |-> ModelVersion, ocr_engine |-> "easyocr",
                   image_size |-> <<600, 400>>]]

\* The values the exporters are called on: None, {}, an item of process_batch
\* that failed, the result of an image without text, a result whose entities
\* lack keys, the sample of the unit tests, a result of process_pdf on two
\* pages, the second without text, and a result whose texts hold the
\* characters that the three formats treat specially
ExResults ==
    << <<>>,
       << <<>> >>,
       << [status |-> "error", error |-> "Pipeline failed: boom"] >>,
       << FormatOutput(<<>>, <<600, 400>>, 0, "easyocr") >>,
       << [status |-> "success",
           results |-> << [entities |-> << [text |-> "Name:", bbox |-> [x1 |-> 50]],
                                           <<>> >>] >>] >>,
       << SampleProcessingResult >>,
       << CombinePdf(
              << FormatOutput(<<Entity("Total", "HEADER", 10000, BBox(0, 0, 10, 10))>>,
                              <<600, 400>>, 42471, "easyocr"),
                 [FormatOutput(<<>>, <<600, 400>>, 0, "easyocr")
                     EXCEPT !.results[1].page = 2] >>,
              <<1, 2>>, 85000, "easyocr") >>,
       << [status |-> "success",
           processing_time_ms |-> 12500,
           results |-> << [page |-> 3,
                           entities |-> << [text |-> "R&D, \"Q1\" <new>", label |-> "HEADER",
                                            confidence |-> 8750, bbox |-> BBox(1, 2, 3, 4)],
                                           [text |-> "Line1\nLine2", label |-> "ANSWER",
                                            confidence |-> 5000, bbox |-> BBox(5, 6, 7, 8)],
                                           [text |-> "C:\\tmp", label |-> "OTHER",
                                            confidence |-> 10, bbox |-> BBox(5, 6, 7, 8)] >>] >>,
           metadata |-> [model_version |-> ModelVersion, ocr_engine |-> "easyocr",
                         image_size |-> <<600, 400>>]] >> >>

\* Values of format: the three keys, and strings that are not keys
ExFormats == {"json", "csv", "xml", "JSON", "yaml", ""}

\* One of the four functions of export.py is called
ExpInit ==
    /\ \E i \in 1..Len(ExResults) : ex_result = ExResults[i]
    /\ \/ ex_fn = "export_result" /\ ex_format \in ExFormats /\ ex_pretty = TRUE
       \/ ex_fn = "export_json" /\ ex_format = "" /\ ex_pretty \in BOOLEAN
       \/ ex_fn \in {"export_csv", "export_xml"} /\ ex_format = "" /\ ex_pretty = FALSE
    /\ ex_output = <<>>
    /\ ex_error = <<>>
    /\ ex_pc = ex_fn

\* return value / raise e of the function that is running
ExLeave(outcome) ==
    /\ ex_output' = IF outcome.ok THEN <<outcome.value>> ELSE <<>>
    /\ ex_error' = IF outcome.ok THEN <<>> ELSE <<outcome.error>>
    /\ ex_pc' = IF outcome.ok THEN "returned" ELSE "raised"
    /\ UNCHANGED <<ex_fn, ex_result, ex_format, ex_pretty>>
    /\ UNCHANGED otherThanExp

\* export.py:145-154  export_result up to the call of the exporter;
\* export_json is called with its default pretty=True
ExportResult ==
    /\ ex_pc = "export_result"
    /\ IF ExporterFor(ex_format) = <<>>
       THEN ExLeave(Raised(UnknownFormat(ex_format)))
       ELSE /\ ex_pc' = ExporterFor(ex_format)[1]
            /\ UNCHANGED <<ex_fn, ex_result, ex_format, ex_pretty, ex_output, ex_error>>
            /\ UNCHANGED otherThanExp

ExportJson ==
    /\ ex_pc = "export_json"
    /\ ExLeave(export_json(ex_result, ex_pretty))

ExportCsv ==
    /\ ex_pc = "export_csv"
    /\ ExLeave(export_csv(ex_result))

ExportXml ==
    /\ ex_pc = "export_xml"
    /\ ExLeave(export_xml(ex_result))

-----------------------------------------------------------------------------
(* The model cache: core/model/loader.py *)

\* Calls of load_model and clear_model_cache in one run of the process
MaxLoaderCalls == 4

LdModelNames == {"microsoft/layoutlmv3-base", "nielsr/layoutlmv3-finetuned-funsd"}

LdDevices == {"auto", "cpu"}

CacheKeyNameOnly(model_name, dev) == model_name

\* loader.py:36  cache_key = f"{model_name}_{device}"
CacheKey(model_name, dev) == model_name \o "_" \o dev

\* loader.py:36-84  load_model(model_name, cache_dir, device): the outcome, the
\* two caches afterwards and the number of loader runs so far.  `cuda` is
\* torch.cuda.is_available(); `fetch` is what from_pretrained does here: "ok",
\* or the call that fails ("no_processor", "no_model").  The objects loaded
\* carry the number of the loader run that made them: two loads never give
\* the same object.
LoadModel(model_cache, processor_cache, model_name, dev, loads, cuda, fetch) ==
    LET cache_key == CacheKey(model_name, dev)
        resolved == IF dev = "auto" THEN (IF cuda THEN "cuda" ELSE "cpu") ELSE dev
        processor == [kind |-> "processor", name |-> model_name, load |-> loads + 1]
        model == [kind |-> "model", name |-> model_name, device |-> resolved,
                  eval |-> TRUE, load |-> loads + 1]
    IN IF cache_key \in DOMAIN model_cache
       THEN [ok |-> TRUE,
             value |-> <<model_cache[cache_key], processor_cache[cache_key]>>,
             model_cache |-> model_cache, processor_cache |-> processor_cache,
             loads |-> loads]
       ELSE IF fetch = "ok"
       THEN [ok |-> TRUE, value |-> <<model, processor>>,
             model_cache |-> (cache_key :> model) @@ model_cache,
             processor_cache |-> (cache_key :> processor) @@ processor_cache,
             loads |-> loads + 1]
       ELSE [ok |-> FALSE,
             error |-> Exception("ModelLoadError",
                                 "Failed to load model " \o model_name \o ": "
                                    \o (IF fetch = "no_processor"
                                        THEN "Can't load processor"
                                        ELSE "Can't load model")),
             model_cache |-> model_cache, processor_cache |-> processor_cache,
             loads |-> loads + 1]

\* loader.py:14-15  the module is imported: both caches are empty dicts
LdInit ==
    /\ ld_model_cache = <<>>
    /\ ld_processor_cache = <<>>
    /\ ld_loads = 0
    /\ ld_history = [k \in LdModelNames \X LdDevices |->
                        [runs |-> 0, completed |-> 0, loaded |-> <<>>]]
    /\ ld_ret = <<>>
    /\ ld_calls = 0
    /\ ld_pc = "ready"

\* load_model(model_name, device=device) is called
LdLoadModel ==
    /\ ld_pc = "ready"
    /\ ld_calls < MaxLoaderCalls
    /\ \E model_name \in LdModelNames, dev \in LdDevices, cuda \in BOOLEAN,
          fetch \in {"ok", "no_processor", "no_model"} :
        LET r == LoadModel(ld_model_cache, ld_processor_cache, model_name, dev,
                           ld_loads, cuda, fetch)
            ran == r.loads - ld_loads
        IN /\ ld_model_cache' = r.model_cache
           /\ ld_processor_cache' = r.processor_cache
           /\ ld_loads' = r.loads
           /\ ld_ret' = IF r.ok
                        THEN <<[fn |-> "load_model", key |-> <<model_name, dev>>,
                                ok |-> TRUE, value |-> r.value]>>
                        ELSE <<[fn |-> "load_model", key |-> <<model_name, dev>>,
                                ok |-> FALSE, error |-> r.error]>>
           /\ ld_history' = [ld_history EXCEPT ![<<model_name, dev>>] =
                                [runs |-> @.runs + ran,
                                 completed |-> @.completed + (IF r.ok THEN ran ELSE 0),
                                 loaded |-> IF r.ok THEN <<r.value>> ELSE @.loaded]]
    /\ ld_calls' = ld_calls + 1
    /\ UNCHANGED ld_pc
    /\ UNCHANGED otherThanLd

\* loader.py:110-124  clear_model_cache()
LdClearModelCache ==
    /\ ld_pc = "ready"
    /\ ld_calls < MaxLoaderCalls
    /\ ld_model_cache' = <<>>
    /\ ld_processor_cache' = <<>>
    /\ ld_history' = [k \in DOMAIN ld_history |->
                         [runs |-> 0, completed |-> 0, loaded |-> <<>>]]
    /\ ld_ret' = <<[fn |-> "clear_model_cache", ok |-> TRUE]>>
    /\ ld_calls' = ld_calls + 1
    /\ UNCHANGED <<ld_loads, ld_pc>>
    /\ UNCHANGED otherThanLd

-----------------------------------------------------------------------------
(* The OCR adapter, its factory and its owner: core/ocr/easyocr_engine.py,   *)
(* DocumentProcessor.__init__ / initialize / shutdown                        *)

\* Calls made on one processor and its adapter
MaxOcrCalls == 4

\* infrastructure/exceptions.py: LayoutLMServiceError and its subclasses
ServiceErrorTypes ==
    {"LayoutLMServiceError", "ConfigurationError", "ImageProcessingError",
     "InvalidImageError", "ImageTooLargeError", "UnsupportedFormatError", "OCRError",
     "OCREngineError", "ModelError", "ModelLoadError", "InferenceError", "PipelineError",
     "ExportError", "ValidationError"}

\* Engine names a configuration can hold
OcEngineNames == {"easyocr", "tesseract", "EasyOCR"}

\* easyocr_engine.py:91-109  create_ocr_engine(engine_type, **kwargs); the new
\* adapter is the (made + 1)-th constructed (easyocr_engine.py:19-29: no reader
\* yet) and its name is the property of easyocr_engine.py:85-87
create_ocr_engine(engine_type, made) ==
    IF engine_type \notin KnownEngines
    THEN Raised(Exception("ValueError", "Unknown OCR engine: " \o engine_type))
    ELSE Returned([id |-> made + 1, name |-> "easyocr", reader |-> <<>>])

\* easyocr_engine.py:31-39  EasyOCREngine.initialize on `engine`: a Reader is
\* constructed, the (readers + 1)-th, unless EasyOCR cannot be loaded
AdapterInitialize(engine, easyocr_ok, readers) ==
    IF easyocr_ok
    THEN [ok |-> TRUE, value |-> TRUE, engine |-> [engine EXCEPT !.reader = <<readers + 1>>],
          readers |-> readers + 1]
    ELSE [ok |-> FALSE, engine |-> engine, readers |-> readers,
          error |-> Exception("OCREngineError",
                              "Failed to initialize EasyOCR: No module named 'easyocr'")]

\* document_processor.py:28-37  a new DocumentProcessor with a configuration
\* whose engine name is known or not, where EasyOCR can be loaded or not
OcInit ==
    /\ oc_cfg \in [engine : OcEngineNames, easyocr_ok : BOOLEAN]
    /\ oc_engine = <<>>
    /\ oc_adapters = 0
    /\ oc_readers = 0
    /\ oc_ret = <<>>
    /\ oc_calls = 0
    /\ oc_pc = "ready"

\* The call `fn`, which asked the factory for `key` ("": it did not), ends with
\* `outcome`
OcLeave(fn, key, outcome) ==
    /\ oc_ret' = <<[fn |-> fn, key |-> key] @@ outcome>>
    /\ oc_calls' = oc_calls + 1
    /\ UNCHANGED <<oc_cfg, oc_pc>>
    /\ UNCHANGED otherThanOc

\* create_ocr_engine(name, ...) called on its own (core/ocr/test_ocr.py:62-72)
OcCreateOcrEngine ==
    /\ oc_pc = "ready"
    /\ oc_calls < MaxOcrCalls
    /\ \E engine_type \in OcEngineNames :
        LET r == create_ocr_engine(engine_type, oc_adapters) IN
        /\ oc_adapters' = IF r.ok THEN oc_adapters + 1 ELSE oc_adapters
        /\ OcLeave("create_ocr_engine", engine_type, r)
    /\ UNCHANGED <<oc_engine, oc_readers>>

\* document_processor.py:39-53  processor.initialize()
OcProcessorInitialize ==
    /\ oc_pc = "ready"
    /\ oc_calls < MaxOcrCalls
    /\ LET created == create_ocr_engine(oc_cfg.engine, oc_adapters) IN
       IF ~created.ok
       THEN /\ OcLeave("DocumentProcessor.initialize", oc_cfg.engine, created)
            /\ UNCHANGED <<oc_engine, oc_adapters, oc_readers>>
       ELSE LET r == AdapterInitialize(created.value, oc_cfg.easyocr_ok, oc_readers) IN
            /\ oc_adapters' = oc_adapters + 1
            /\ oc_engine' = <<r.engine>>
            /\ oc_readers' = r.readers
            /\ OcLeave("DocumentProcessor.initialize", oc_cfg.engine,
                       IF r.ok THEN Returned(<<>>) ELSE Raised(r.error))

\* easyocr_engine.py:31-39  initialize() called on the adapter the processor holds
OcEngineInitialize ==
    /\ oc_pc = "ready"
    /\ oc_calls < MaxOcrCalls
    /\ oc_engine # <<>>
    /\ LET r == AdapterInitialize(oc_engine[1], oc_cfg.easyocr_ok, oc_readers) IN
       /\ oc_engine' = <<r.engine>>
       /\ oc_readers' = r.readers
       /\ OcLeave("EasyOCREngine.initialize", "",
                  IF r.ok THEN Returned(TRUE) ELSE Raised(r.error))
    /\ UNCHANGED oc_adapters

\* document_processor.py:191-195, easyocr_engine.py:80-83  processor.shutdown()
OcShutdown ==
    /\ oc_pc = "ready"
    /\ oc_calls < MaxOcrCalls
    /\ oc_engine' = IF oc_engine = <<>> THEN <<>>
                    ELSE <<[oc_engine[1] EXCEPT !.reader = <<>>]>>
    /\ OcLeave("DocumentProcessor.shutdown", "", Returned(<<>>))
    /\ UNCHANGED <<oc_adapters, oc_readers>>

-----------------------------------------------------------------------------
(* The shared processor and its callers: get_processor                       *)
(* (document_processor.py:198-207), the API handlers (api/routes/process.py) *)
(* and the UI handler (ui/gradio_app.py:94-119).  Each caller is a thread    *)
(* serving one request; a step is one access to the shared state.  The OCR   *)
(* engine and the model work here (their failures are the subject of Spec).  *)

Callers == {"c1", "c2"}

\* The handlers: the UI's process_document, and POST /process, /batch and
\* /process-pdf
SvKinds == {"ui", "process", "batch", "pdf"}

\* Values of the argument confidence_threshold: two steps of the UI slider
\* (ui/gradio_app.py:171-177) and one with four decimals
SvThresholds == {1000, 9000, 9232}

SvDocs == {"form", "letter"}

\* document_processor.py:55-118  process_image on the image of `doc` when
\* config.model.confidence_threshold is `threshold`
ProcessImage(doc, threshold) ==
    LET size == PreprocessImage(Source(doc, "none")).size
        ocr == DocOcr(doc)
        elapsed == 2 * StageTime("ocr") + StageTime("inference") + 3 * StageTime("format")
    IN IF OcrFoundNothing(ocr)
       THEN FormatOutput(<<>>, size, 2 * StageTime("ocr"), "easyocr")
       ELSE FormatOutput(
                AggregateEntities(
                    ProcessPredictions(RunInference(size, ocr, DocModel(doc)), threshold)),
                size, elapsed, "easyocr")

\* What the handler `kind` answers when process_image runs under `threshold`:
\* gradio_app.py:119, process.py:46-48, process.py:77-90 (one file),
\* process.py:133-135 with document_processor.py:142-162 (one page)
HandlerResult(kind, doc, threshold) ==
    LET result == ProcessImage(doc, threshold) IN
    CASE kind = "batch" -> [results |-> << [filename |-> doc \o ".png"] @@ result >>]
      [] kind = "pdf" -> CombinePdf(<<RenumberPage(result, 0)>>, <<doc>>,
                                    result.processing_time_ms, "easyocr")
      [] OTHER -> result

\* The process starts: no processor yet, the configuration as loaded, and each
\* caller about to serve one request
SvInit ==
    /\ sv_processor = <<>>
    /\ sv_made = 0
    /\ sv_engines = {}
    /\ sv_threshold = DefaultThreshold
    /\ sv_callers \in [Callers -> [kind : SvKinds, t : SvThresholds, doc : SvDocs,
                                   pc : {"gp_check"}, processor : {<<>>},
                                   result : {<<>>}, disturbed : {FALSE}]]
    /\ sv_pc = "serving"

\* Caller c moves to `next`; the other callers stay where they are
SvGoto(c, next) == sv_callers' = [sv_callers EXCEPT ![c].pc = next]

\* document_processor.py:205  `if _processor is None:`
GpCheck(c) ==
    /\ sv_callers[c].pc = "gp_check"
    /\ SvGoto(c, IF sv_processor = <<>> THEN "gp_new" ELSE "gp_return")
    /\ UNCHANGED <<sv_processor, sv_made, sv_engines, sv_threshold, sv_pc>>
    /\ UNCHANGED otherThanSv

\* document_processor.py:206  `_processor = DocumentProcessor()`
GpConstruct(c) ==
    /\ sv_callers[c].pc = "gp_new"
    /\ sv_made' = sv_made + 1
    /\ sv_processor' = <<sv_made + 1>>
    /\ SvGoto(c, "gp_return")
    /\ UNCHANGED <<sv_engines, sv_threshold, sv_pc>>
    /\ UNCHANGED otherThanSv

\* document_processor.py:207  `return _processor`, and the handler's
\* `processor = get_processor()`
GpReturn(c) ==
    /\ sv_callers[c].pc = "gp_return"
    /\ sv_callers' = [sv_callers EXCEPT
                         ![c].processor = sv_processor,
                         ![c].pc = IF sv_callers[c].kind = "ui" THEN "set" ELSE "process"]
    /\ UNCHANGED <<sv_processor, sv_made, sv_engines, sv_threshold, sv_pc>>
    /\ UNCHANGED otherThanSv

UiKeepThreshold(c) ==
    /\ sv_callers[c].pc = "set"
    /\ SvGoto(c, "ensure")
    /\ UNCHANGED <<sv_processor, sv_made, sv_engines, sv_threshold, sv_pc>>
    /\ UNCHANGED otherThanSv

\* gradio_app.py:113  processor.config.model.confidence_threshold = confidence_threshold
\* (every processor holds the one global configuration, document_processor.py:35)
UiSetThreshold(c) ==
    /\ sv_callers[c].pc = "set"
    /\ sv_threshold' = sv_callers[c].t
    /\ sv_callers' = [d \in Callers |->
                         IF d = c
                         THEN [sv_callers[d] EXCEPT !.pc = "ensure", !.disturbed = FALSE]
                         ELSE IF sv_callers[d].pc \in {"ensure", "process"}
                                   /\ sv_callers[d].kind = "ui"
                              THEN [sv_callers[d] EXCEPT !.disturbed = TRUE]
                              ELSE sv_callers[d]]
    /\ UNCHANGED <<sv_processor, sv_made, sv_engines, sv_pc>>
    /\ UNCHANGED otherThanSv

\* gradio_app.py:116-117  `if ... processor._ocr_engine is None: processor.initialize()`
UiEnsureInit(c) ==
    /\ sv_callers[c].pc = "ensure"
    /\ sv_engines' = sv_engines \cup {sv_callers[c].processor[1]}
    /\ SvGoto(c, "process")
    /\ UNCHANGED <<sv_processor, sv_made, sv_threshold, sv_pc>>
    /\ UNCHANGED otherThanSv

\* The handler's call of process_image (process_pdf for /process-pdf) on its
\* processor, up to its answer: initialization if the processor holds no
\* adapter (document_processor.py:68-70), and the stages, of which
\* process_predictions is given the threshold the configuration holds at that
\* moment (document_processor.py:100-103).  The handlers of process.py do
\* nothing with their argument confidence_threshold.
SvProcess(c) ==
    /\ sv_callers[c].pc = "process"
    /\ sv_engines' = sv_engines \cup {sv_callers[c].processor[1]}
    /\ sv_callers' = [sv_callers EXCEPT
                         ![c].result = <<HandlerResult(sv_callers[c].kind, sv_callers[c].doc,
                                                       sv_threshold)>>,
                         ![c].pc = "done"]
    /\ UNCHANGED <<sv_processor, sv_made, sv_threshold, sv_pc>>
    /\ UNCHANGED otherThanSv

-----------------------------------------------------------------------------
(* format_output called on its own *)

\* format_output(entities, image_size, processing_time_ms) is called
FoInit ==
    /\ \E n \in 0..MaxEntities : fo_entities \in [1..n -> AggEntityPool]
    /\ fo_output = <<>>
    /\ fo_pc = "call"

\* postprocess.py:156-178  the dict is built from the entities' fields and
\* returned; the entities are read only
FoFormatOutput ==
    /\ fo_pc = "call"
    /\ fo_output' = <<FormatOutput(fo_entities, <<600, 400>>, StageTime("format"), "easyocr")>>
    /\ fo_pc' = "returned"
    /\ UNCHANGED fo_entities
    /\ UNCHANGED otherThanFo

-----------------------------------------------------------------------------
(* Specifications *)

InitAggregate == AggInit /\ DecOff /\ ProcOff /\ BoxOff /\ ImgOff /\ ExpOff /\ LateOff

AggNext == AggReturnEmpty \/ AggIterate \/ AggReturn \/ AggAgain

SpecAggregate == InitAggregate /\ [][AggNext]_vars

InitDecode == DecInit /\ AggOff /\ ProcOff /\ BoxOff /\ ImgOff /\ ExpOff /\ LateOff

DecNext == DecIterate \/ DecReturn

SpecDecode == InitDecode /\ [][DecNext]_vars

InitBox == BoxInit /\ AggOff /\ DecOff /\ ProcOff /\ ImgOff /\ ExpOff /\ LateOff

NbNext == NbNormalize \/ NbUnnormalize

SpecBox == InitBox /\ [][NbNext]_vars

InitImage == ImgInit /\ AggOff /\ DecOff /\ ProcOff /\ BoxOff /\ ExpOff /\ LateOff

ImgNext == ImgLoad \/ ImgValidate \/ ImgResize

SpecImage == InitImage /\ [][ImgNext]_vars

InitExport == ExpInit /\ AggOff /\ DecOff /\ ProcOff /\ BoxOff /\ ImgOff /\ LateOff

ExpNext == ExportResult \/ ExportJson \/ ExportCsv \/ ExportXml

SpecExport == InitExport /\ [][ExpNext]_vars

StagesOff == AggOff /\ DecOff /\ ProcOff /\ BoxOff /\ ImgOff /\ ExpOff

InitLoader == LdInit /\ StagesOff /\ OcOff /\ SvOff /\ FoOff

LdNext == LdLoadModel \/ LdClearModelCache

SpecLoader == InitLoader /\ [][LdNext]_vars

InitOcr == OcInit /\ StagesOff /\ LdOff /\ SvOff /\ FoOff

OcNext == OcCreateOcrEngine \/ OcProcessorInitialize \/ OcEngineInitialize \/ OcShutdown

SpecOcr == InitOcr /\ [][OcNext]_vars

InitService == SvInit /\ StagesOff /\ LdOff /\ OcOff /\ FoOff

SvNext ==
    \E c \in Callers :
        \/ GpCheck(c)
        \/ GpConstruct(c)
        \/ GpReturn(c)
        \/ UiSetThreshold(c)
        \/ UiEnsureInit(c)
        \/ SvProcess(c)

SpecService == InitService /\ [][SvNext]_vars

\* One call of one of the stages that take a value and return another:
\* process_predictions, aggregate_entities, format_output or an exporter
InitStages ==
    \/ InitDecode
    \/ InitAggregate
    \/ FoInit /\ StagesOff /\ LdOff /\ OcOff /\ SvOff
    \/ InitExport

StagesNext ==
    \/ DecIterate
    \/ DecReturn
    \/ AggReturnEmpty
    \/ AggIterate
    \/ AggReturn
    \/ AggAgain
    \/ FoFormatOutput
    \/ ExportResult
    \/ ExportJson
    \/ ExportCsv
    \/ ExportXml

SpecStages == InitStages /\ [][StagesNext]_vars

-----------------------------------------------------------------------------
(* Properties of aggregate_entities, checked under SpecAggregate *)

\* The loop takes one iteration while an accumulator is open.
AggIterWithAcc == agg_pc = "loop" /\ agg_idx' = agg_idx + 1 /\ agg_current # <<>>

AggAcc == agg_current[1]

AggEnt == agg_entities[agg_idx + 1]

\* The iteration kept the accumulator open (nothing was closed, and the
\* accumulator is not just the next entity).
AggStepMerged == agg_aggregated' = agg_aggregated /\ agg_current' # <<AggEnt>>

\* The iteration closed the accumulator and started a new one with the entity.
AggStepClosed ==
    /\ agg_aggregated' = Append(agg_aggregated, AggAcc)
    /\ agg_current' = <<AggEnt>>

\* C4 as stated: the next entity is merged iff it has the accumulator's label and
\* the gap from the accumulator's right edge to the entity's left edge,
\* entity.x1 - acc.x2, is below 50; otherwise the accumulator is closed.
C4_SignedGapMerge ==
    [][AggIterWithAcc =>
         IF AggEnt.label = AggAcc.label /\ AggEnt.bbox.x1 - AggAcc.bbox.x2 < 50
         THEN AggStepMerged ELSE AggStepClosed]_vars

\* C4 amended: the next entity is merged iff it has the accumulator's label and
\* the absolute distance |entity.x1 - acc.x2| is below 50 (an entity that starts
\* 50 px or more to the LEFT of the accumulator's right edge is not merged
\* either); in every other case the accumulator is closed and a new one starts
\* with the next entity.
C4_AbsGapMerge ==
    [][AggIterWithAcc =>
         IF /\ AggEnt.label = AggAcc.label
            /\ AggEnt.bbox.x1 - AggAcc.bbox.x2 < 50
            /\ AggAcc.bbox.x2 - AggEnt.bbox.x1 < 50
         THEN AggStepMerged ELSE AggStepClosed]_vars

\* Three entities of one label: the second merged (gap 20), the third, 210 px to
\* the left of the accumulator's right edge, closed it.
C4_Witness ==
    /\ agg_pc = "done" /\ agg_pass = 1
    /\ Len(agg_entities) = 3
    /\ \A i \in 1..3 : agg_entities[i].label = "ANSWER"
    /\ agg_entities[1].bbox.x2 = 210
    /\ agg_entities[2].bbox.x1 = 0
    /\ agg_entities[3].bbox.x1 = 30
    /\ Len(agg_aggregated) = 2

\* The values a set of numbers spans.
MinOf(S) == CHOOSE m \in S : \A x \in S : m <= x

MaxOf(S) == CHOOSE m \in S : \A x \in S : m >= x

RECURSIVE JoinWithSpaces(_)
JoinWithSpaces(texts) ==
    IF Len(texts) = 1 THEN texts[1]
    ELSE JoinWithSpaces(SubSeq(texts, 1, Len(texts) - 1)) \o " " \o texts[Len(texts)]

\* What a run of inputs must aggregate to: texts joined by single spaces, the
\* shared label, the least confidence, the bounding union.
RunEntity(run) ==
    LET I == 1..Len(run) IN
    Entity(JoinWithSpaces([i \in I |-> run[i].text]),
           run[1].label,
           MinOf({run[i].confidence : i \in I}),
           BBox(MinOf({run[i].bbox.x1 : i \in I}), MinOf({run[i].bbox.y1 : i \in I}),
                MaxOf({run[i].bbox.x2 : i \in I}), MaxOf({run[i].bbox.y2 : i \in I})))

\* The inputs the j-th accumulator was built from so far.
AggRun(j) ==
    SubSeq(agg_entities, agg_runs[j],
           IF j < Len(agg_runs) THEN agg_runs[j + 1] - 1 ELSE agg_idx)

\* C5: a merge yields text = accumulator text, one space, entity text; the shared
\* label; the minimum of the two confidences; the union rectangle.  Hence the
\* open accumulator and every entity returned carry the joined text, the
\* minimum confidence and the bounding union of all the inputs of their run.
C5_MergeSemantics ==
    /\ [][AggIterWithAcc /\ AggStepMerged =>
            /\ agg_current'[1].text = AggAcc.text \o " " \o AggEnt.text
            /\ agg_current'[1].label = AggAcc.label
            /\ agg_current'[1].label = AggEnt.label
            /\ agg_current'[1].confidence =
                  (IF AggAcc.confidence < AggEnt.confidence
                   THEN AggAcc.confidence ELSE AggEnt.confidence)
            /\ agg_current'[1].bbox.x1 = MinOf({AggAcc.bbox.x1, AggEnt.bbox.x1})
            /\ agg_current'[1].bbox.y1 = MinOf({AggAcc.bbox.y1, AggEnt.bbox.y1})
            /\ agg_current'[1].bbox.x2 = MaxOf({AggAcc.bbox.x2, AggEnt.bbox.x2})
            /\ agg_current'[1].bbox.y2 = MaxOf({AggAcc.bbox.y2, AggEnt.bbox.y2})]_vars
    /\ [](agg_pc = "loop" /\ agg_current # <<>> =>
            agg_current[1] = RunEntity(AggRun(Len(agg_runs))))
    /\ [](agg_pc = "done" =>
            /\ Len(agg_aggregated) = Len(agg_runs)
            /\ \A j \in 1..Len(agg_runs) : agg_aggregated[j] = RunEntity(AggRun(j)))

\* All three inputs were merged into one entity whose confidence and box differ
\* from those of the first and of the last input.
C5_Witness ==
    /\ agg_pc = "done" /\ agg_pass = 1
    /\ Len(agg_entities) = 3
    /\ Len(agg_aggregated) = 1
    /\ agg_aggregated[1].text = "Name: John Doe"
    /\ agg_entities[2].confidence < agg_entities[1].confidence
    /\ agg_entities[2].confidence < agg_entities[3].confidence

\* C6 as stated: aggregate_entities(aggregate_entities(E)) = aggregate_entities(E)
\* for every entity list E.
C6_Idempotent ==
    agg_pc = "done" /\ agg_pass = 2 => agg_aggregated = agg_entities

\* In the argument of the first application no entity starts to the left of an
\* entity of the same label right before it, so that no merge moves the
\* accumulator's left edge.
AggNoLeftwardMerge ==
    \A i \in 1..(Len(agg_first) - 1) :
        agg_first[i + 1].label = agg_first[i].label
            => agg_first[i + 1].bbox.x1 >= agg_first[i].bbox.x1

\* C6 amended: aggregate_entities(aggregate_entities(E)) = aggregate_entities(E)
\* for every entity list E in which an entity never starts to the left of the
\* entity of the same label right before it (x1 does not decrease within a run
\* of equal labels, as for words read left to right).  Without that condition a
\* merge can move the accumulator's left edge to within 50 px of the previous
\* output entity, and a second application merges the two.
C6_IdempotentLeftToRight ==
    agg_pc = "done" /\ agg_pass = 2 /\ AggNoLeftwardMerge => agg_aggregated = agg_entities

\* A second application came back with its argument, which the first application
\* had built by merging.
C6_Witness ==
    /\ agg_pc = "done" /\ agg_pass = 2
    /\ AggNoLeftwardMerge
    /\ Len(agg_first) = 3
    /\ Len(agg_entities) = 2
    /\ agg_entities[1].label = agg_entities[2].label
    /\ agg_aggregated = agg_entities

-----------------------------------------------------------------------------
(* Properties of process_predictions, checked under SpecDecode *)

\* Positions (from 1) of the tokens the loop has visited so far.
DecVisited == 1..dec_idx

\* Word indices that some visited token is aligned to.
DecVisitedWords == {w \in 0..(Len(dec_result.words) - 1) :
                      \E i \in DecVisited : dec_result.word_ids[i] = <<w>>}

\* Position of the first token aligned to word w.
FirstTokenOf(w) ==
    CHOOSE i \in 1..Len(dec_result.word_ids) :
        /\ dec_result.word_ids[i] = <<w>>
        /\ \A j \in 1..(i - 1) : dec_result.word_ids[j] # <<w>>

\* The label-table name of the prediction of token i.
TokenLabelName(i) == LabelTable[dec_result.predictions[i]]

\* Token i is rejected: background, or confidence below the threshold.
TokenRejected(i) ==
    TokenLabelName(i) = <<"O">> \/ dec_result.confidence_scores[i] < dec_threshold

\* Positions in dec_entities of the entities carrying the text of word w
\* (the words of a page have distinct texts here).
EntitiesOfWord(w) == {k \in 1..Len(dec_entities) : dec_entities[k].text = dec_result.words[w + 1]}

\* C7: first-token-wins.  After any number of iterations the consumed words are
\* exactly the words of the visited tokens; a token whose word index is null or
\* already consumed changes nothing; each visited word has at most one entity,
\* whose label and confidence are those of the word's first token, and none at
\* all when its first token is rejected, whatever its later tokens say.
C7_FirstTokenWins ==
    /\ [](dec_pc # "off" =>
            /\ dec_processed = DecVisitedWords
            /\ \A w \in DecVisitedWords :
                  LET i == FirstTokenOf(w) IN
                  IF TokenRejected(i)
                  THEN EntitiesOfWord(w) = {}
                  ELSE /\ Cardinality(EntitiesOfWord(w)) = 1
                       /\ \A k \in EntitiesOfWord(w) :
                             /\ dec_entities[k].confidence = dec_result.confidence_scores[i]
                             /\ dec_entities[k].label = TokenLabelName(i)[2]
            /\ \A k \in 1..Len(dec_entities) :
                  \E w \in DecVisitedWords : k \in EntitiesOfWord(w))
    /\ [][dec_idx' = dec_idx + 1 /\
            (dec_result.word_ids[dec_idx + 1] = <<>>
               \/ dec_result.word_ids[dec_idx + 1][1] \in dec_processed)
            => dec_entities' = dec_entities /\ dec_processed' = dec_processed]_vars

\* Word 0 has three tokens: the first background, the later two acceptable;
\* nothing was emitted for it.
C7_Witness ==
    /\ dec_pc = "done"
    /\ dec_threshold = 0
    /\ dec_result.word_ids = << <<0>>, <<0>>, <<0>> >>
    /\ dec_result.predictions = <<0, 5, 2>>
    /\ dec_entities = <<>>

\* C8: every emitted entity has a label among HEADER, QUESTION, ANSWER (the
\* table name without its B-/I- prefix, never "O"), a confidence not below the
\* threshold, and the text and pixel box of the word its token is aligned to;
\* entities come in the order of their tokens.
C8_EmittedEntities ==
    dec_pc # "off" =>
        /\ \A k \in 1..Len(dec_entities) :
              LET e == dec_entities[k] IN
              /\ e.label \in {"HEADER", "QUESTION", "ANSWER"}
              /\ e.confidence >= dec_threshold
              /\ \E i \in DecVisited :
                    /\ dec_result.word_ids[i] # <<>>
                    /\ LET w == dec_result.word_ids[i][1] IN
                       /\ e.text = dec_result.words[w + 1]
                       /\ <<e.bbox.x1, e.bbox.y1, e.bbox.x2, e.bbox.y2>> = dec_result.boxes[w + 1]
                    /\ e.confidence = dec_result.confidence_scores[i]
                    /\ e.label = TokenLabelName(i)[Len(TokenLabelName(i))]
                    /\ TokenLabelName(i)[1] \in {"B", "I"}
        /\ \A j, k \in 1..Len(dec_entities) :
              j < k =>
                \E w1, w2 \in DecVisitedWords :
                    /\ j \in EntitiesOfWord(w1)
                    /\ k \in EntitiesOfWord(w2)
                    /\ FirstTokenOf(w1) < FirstTokenOf(w2)

\* Word 1 came before word 0 in the token sequence; both were emitted in that
\* order, one from an I- and one from a B- label.
C8_Witness ==
    /\ dec_pc = "done"
    /\ dec_threshold = 10000
    /\ Len(dec_entities) = 2
    /\ dec_entities[1] = Entity("John", "HEADER", 10000, BBox(150, 50, 280, 70))
    /\ dec_entities[2] = Entity("Name:", "ANSWER", 10000, BBox(50, 50, 120, 70))
    /\ dec_result.confidence_scores[1] = 6000

\* Words (with at least one token) whose first token is not background.
NonBackgroundWords ==
    {w \in 0..(Len(dec_result.words) - 1) :
        /\ \E i \in 1..Len(dec_result.word_ids) : dec_result.word_ids[i] = <<w>>
        /\ TokenLabelName(FirstTokenOf(w)) # <<"O">>}

\* C9: with confidence_threshold = 1.01 nothing is emitted; with
\* confidence_threshold = 0.0 exactly one entity is emitted per distinct word
\* whose first token is not background.
C9_ThresholdExtremes ==
    dec_pc = "done" =>
        /\ dec_threshold = 10100 => dec_entities = <<>>
        /\ dec_threshold = 0 =>
              /\ Len(dec_entities) = Cardinality(NonBackgroundWords)
              /\ \A w \in NonBackgroundWords : Cardinality(EntitiesOfWord(w)) = 1

\* Threshold 0.0, three tokens over two words, both words non-background and a
\* repeated token of word 0: two entities.
C9_Witness ==
    /\ dec_pc = "done"
    /\ dec_threshold = 0
    /\ dec_result.word_ids = << <<0>>, <<0>>, <<1>> >>
    /\ dec_result.predictions = <<5, 2, 2>>
    /\ Len(dec_entities) = 2

-----------------------------------------------------------------------------
(* Properties of the DocumentProcessor, checked under Spec *)

\* The environment lets the OCR engine be created and initialized.
EngineAvailable == cfg.engine = "easyocr" /\ cfg.easyocr_ok

\* A source that nothing stops: its image passes validation and no stage is
\* faulted for it.
Processable(src) == EngineAvailable /\ src.doc # "tiny" /\ src.fault = "none"

\* The entities the documents hold at the default threshold, as format_output
\* reports them: on the form "John" and "Doe" (5 px apart, both ANSWER) are one
\* entity, on the letter the low-confidence word is dropped.
ExpectedEntities(doc) ==
    CASE doc = "form" ->
            << [text |-> "Name:", label |-> "QUESTION", confidence |-> 9510,
                bbox |-> BBox(50, 50, 120, 70)],
               [text |-> "John Doe", label |-> "ANSWER", confidence |-> 9110,
                bbox |-> BBox(150, 50, 280, 70)] >>
      [] doc = "letter" ->
            << [text |-> "INVOICE", label |-> "HEADER", confidence |-> 8850,
                bbox |-> BBox(300, 20, 500, 60)] >>
      [] OTHER -> <<>>

BatchDone == op = "done" /\ ret # <<>> /\ ret[1].src = "batch"

\* C1: process_batch(S) returns (never raises) a list of len(S) results in the
\* order of S: process_image was called once on each S[i], in order; the i-th
\* result is what that call returned when it succeeded and {status: "error",
\* error: message of what it raised} when it failed; every source that can be
\* processed is processed with its own entities, whatever failed before it.
C1_BatchIsolation ==
    BatchDone =>
        /\ ret[1].ok
        /\ Len(ret[1].value) = Len(batch_sources)
        /\ Len(pi_log) = Len(batch_sources)
        /\ \A i \in 1..Len(batch_sources) :
              /\ pi_log[i].src = batch_sources[i]
              /\ pi_log[i].ok <=> Processable(batch_sources[i])
              /\ IF pi_log[i].ok
                 THEN /\ ret[1].value[i] = pi_log[i].value
                      /\ ret[1].value[i].status = "success"
                      /\ ret[1].value[i].results[1].entities =
                            ExpectedEntities(batch_sources[i].doc)
                 ELSE ret[1].value[i] = [status |-> "error", error |-> pi_log[i].error.msg]

\* The scenario of the specification: three sources, the second too small to be
\* valid; the first and the third succeed.
C1_Witness ==
    /\ BatchDone
    /\ batch_sources = <<Source("form", "none"), Source("tiny", "none"), Source("letter", "none")>>
    /\ ret[1].value[1].status = "success"
    /\ ret[1].value[2] = [status |-> "error",
                          error |-> "Pipeline failed: Image dimensions (50x50) below minimum (100x100)"]
    /\ ret[1].value[3].status = "success"
    /\ ret[1].value[3].results[1].entities = ExpectedEntities("letter")

\* The stage process_image is about to run, if it is inside process_image.
StageAtPc ==
    CASE pc = "ensure_init" /\ ocr_engine = <<>> -> <<"initialize">>
      [] pc = "preprocess" -> <<"preprocess">>
      [] pc = "ocr" -> <<"ocr">>
      [] pc = "post_ocr" /\ ocr_results # <<>> -> <<"inference">>
      [] pc = "decode" -> <<"decode">>
      [] pc = "aggregate" -> <<"aggregate">>
      [] OTHER -> <<>>

\* The message of the exception the stage about to run will raise (<<>> if it
\* will not fail): what the environment and the source make of it.
CauseOfFailure ==
    CASE pc = "ensure_init" /\ ocr_engine = <<>> /\ cfg.engine # "easyocr" ->
            <<"Unknown OCR engine: tesseract">>
      [] pc = "ensure_init" /\ ocr_engine = <<>> /\ cfg.engine = "easyocr" /\ ~cfg.easyocr_ok ->
            <<"Failed to initialize EasyOCR: No module named 'easyocr'">>
      [] pc = "preprocess" /\ source[1].doc = "tiny" ->
            <<"Image dimensions (50x50) below minimum (100x100)">>
      [] pc = "ocr" /\ ~ocr_engine[1].reader /\ ~cfg.easyocr_ok ->
            <<"Failed to initialize EasyOCR: No module named 'easyocr'">>
      [] pc = "ocr" /\ (ocr_engine[1].reader \/ cfg.easyocr_ok) /\ source[1].fault = "ocr" ->
            <<"CUDA out of memory">>
      [] pc = "post_ocr" /\ ocr_results # <<>> /\ source[1].fault = "inference" ->
            <<"Inference failed: model not available">>
      [] pc = "decode" /\ source[1].fault = "decode" -> <<"out of memory">>
      [] pc = "aggregate" /\ source[1].fault = "aggregate" -> <<"out of memory">>
      [] OTHER -> <<>>

\* C2: when a stage of process_image fails, process_image raises a
\* PipelineError whose message is "Pipeline failed: " followed by the cause's
\* message; the failing stage is the last one that ran; no result is returned
\* (a direct caller gets the PipelineError).  No outcome of process_image is an
\* exception of another type.
C2_StageFailureWrapped ==
    /\ [][CauseOfFailure # <<>> =>
            /\ pc' = "none"
            /\ stages' = Append(stages, StageAtPc[1])
            /\ Len(pi_log') = Len(pi_log) + 1
            /\ ~pi_log'[Len(pi_log')].ok
            /\ pi_log'[Len(pi_log')].error =
                  [type |-> "PipelineError",
                   msg |-> "Pipeline failed: " \o CauseOfFailure[1]]
            /\ op = "image" =>
                  /\ op' = "done"
                  /\ ~ret'[1].ok
                  /\ ret'[1].error = pi_log'[Len(pi_log')].error]_vars
    /\ [](\A i \in 1..Len(pi_log) : ~pi_log[i].ok => pi_log[i].error.type = "PipelineError")
    /\ [](op = "done" /\ ret[1].src = "image" /\ ~ret[1].ok =>
            /\ ret[1].error.type = "PipelineError"
            /\ stages # <<>>
            /\ \A i \in 1..Len(stages) : stages[i] # "format")

\* process_image, called directly, raised for a fault of the model adapter:
\* decode, aggregate and format did not run.
C2_Witness ==
    /\ op = "done"
    /\ ret[1].src = "image"
    /\ ~ret[1].ok
    /\ ret[1].error = [type |-> "PipelineError",
                       msg |-> "Pipeline failed: Inference failed: model not available"]
    /\ stages = <<"initialize", "preprocess", "ocr", "inference">>

\* C3: when extract_text returns an empty list, process_image returns a result
\* with status "success", exactly one PageResult with zero entities and a
\* processing time (measured up to that point), and neither the model adapter
\* nor decode nor aggregate has run.
C3_EmptyOcrFastPath ==
    [][pc = "post_ocr" /\ ocr_results = <<>> =>
          /\ pc' = "none"
          /\ Len(pi_log') = Len(pi_log) + 1
          /\ pi_log'[Len(pi_log')].ok
          /\ LET result == pi_log'[Len(pi_log')].value IN
             /\ result.status = "success"
             /\ Len(result.results) = 1
             /\ result.results[1].entities = <<>>
             /\ "processing_time_ms" \in DOMAIN result
             /\ result.processing_time_ms - (clock - start_time) \in -5..5
          /\ \A i \in 1..Len(stages') :
                stages'[i] \notin {"inference", "decode", "aggregate"}]_vars

\* process_image, called directly on a blank page, returned its result.
C3_Witness ==
    /\ op = "done"
    /\ ret[1].src = "image"
    /\ source = <<Source("blank", "none")>>
    /\ ret[1].ok
    /\ ret[1].value.results = << [page |-> 1, entities |-> <<>>] >>
    /\ ret[1].value.processing_time_ms > 0
    /\ stages = <<"initialize", "preprocess", "ocr", "format">>

PdfDone == op = "done" /\ ret # <<>> /\ ret[1].src = "pdf"

\* C10: for a PDF of N pages that all process successfully, process_pdf returns
\* one result with status "success" and exactly N PageResults in page order,
\* the i-th with page = i and the entities of page i, and metadata with
\* total_pages = N and no image_size; for N = 0 the results list is empty.
C10_PdfPages ==
    PdfDone /\ pdf[1].readable /\ (\A i \in 1..Len(pdf[1].pages) : Processable(pdf[1].pages[i])) =>
        /\ ret[1].ok
        /\ LET combined == ret[1].value
               N == Len(pdf[1].pages)
           IN /\ combined.status = "success"
              /\ Len(combined.results) = N
              /\ \A i \in 1..N :
                    /\ combined.results[i].page = i
                    /\ combined.results[i].entities = ExpectedEntities(pdf[1].pages[i].doc)
                    /\ combined.results[i].entities = pi_log[i].value.results[1].entities
              /\ combined.metadata.total_pages = N
              /\ "image_size" \notin DOMAIN combined.metadata

\* A two-page PDF, the letter before the form.
C10_Witness ==
    /\ PdfDone
    /\ ret[1].ok
    /\ pdf[1].pages = <<Source("letter", "none"), Source("form", "none")>>
    /\ ret[1].value.results =
          << [page |-> 1, entities |-> ExpectedEntities("letter")],
             [page |-> 2, entities |-> ExpectedEntities("form")] >>

-----------------------------------------------------------------------------
(* Properties of process_pdf's failures, checked under Spec *)

\* The messages of the exceptions a stage of process_image can raise here.
CauseMessages ==
    { "Unknown OCR engine: tesseract",
      "Failed to initialize EasyOCR: No module named 'easyocr'",
      "Image dimensions (50x50) below minimum (100x100)",
      "CUDA out of memory",
      "Inference failed: model not available",
      "out of memory" }

\* C11: process_pdf fails when the file cannot be rasterized or some page
\* cannot be processed, and only then.  It then raises a PipelineError whose
\* message ends with the message of the cause (the rasterizer's error, or the
\* PipelineError of process_image on the first failing page k, which itself
\* carries the stage's message); nothing is returned; pages 1..k-1 were
\* processed successfully, page k failed, and no page after k was processed.
C11_PdfFailure ==
    PdfDone =>
        /\ ~ret[1].ok <=>
              \/ ~pdf[1].readable
              \/ \E i \in 1..Len(pdf[1].pages) : ~Processable(pdf[1].pages[i])
        /\ ~ret[1].ok =>
              /\ "value" \notin DOMAIN ret[1]
              /\ ret[1].error.type = "PipelineError"
              /\ IF ~pdf[1].readable
                 THEN /\ pi_log = <<>>
                      /\ ret[1].error.msg =
                            "PDF processing failed: Failed to load PDF: cannot open file"
                 ELSE LET k == Len(pi_log) IN
                      /\ k \in 1..Len(pdf[1].pages)
                      /\ \A i \in 1..k : pi_log[i].src = pdf[1].pages[i]
                      /\ \A i \in 1..(k - 1) : pi_log[i].ok /\ Processable(pdf[1].pages[i])
                      /\ ~pi_log[k].ok
                      /\ ~Processable(pdf[1].pages[k])
                      /\ Len(all_results) = k - 1
                      /\ ret[1].error.msg = "PDF processing failed: " \o pi_log[k].error.msg
                      /\ \E m \in CauseMessages :
                            pi_log[k].error.msg = "Pipeline failed: " \o m

\* A two-page PDF whose first page is too small and whose second page is fine:
\* only the first page was processed.
C11_Witness ==
    /\ PdfDone
    /\ pdf[1].pages = <<Source("tiny", "none"), Source("form", "none")>>
    /\ ~ret[1].ok
    /\ Len(pi_log) = 1
    /\ ret[1].error.msg =
          "PDF processing failed: Pipeline failed: Image dimensions (50x50) below minimum (100x100)"

-----------------------------------------------------------------------------
(* Properties of the processor's life cycle, checked under Spec *)

\* The public method that has just finished is a processing operation.
ProcessingDone ==
    op = "done" /\ ret # <<>> /\ ret[1].src \in {"image", "batch", "pdf"}

\* The process_image calls of the current public method that ran initialize().
InitializingCalls == {i \in 1..Len(pi_log) : \E k \in 1..Len(pi_log[i].stages) :
                                                pi_log[i].stages[k] = "initialize"}

\* The public method was entered on a processor holding no OCR adapter (the
\* adapter, once held, is never dropped).
EnteredUninitialized == ocr_engine = <<>> \/ InitializingCalls # {}

Ready == ocr_engine # <<>> /\ ocr_engine[1].reader

\* C13: in every state reached after shutdown() the processor holds no OCR
\* adapter and is not Ready.
C13_ReleasedAfterShutdown ==
    shutdowns > 0 => ocr_engine = <<>> /\ ~Ready

\* The last step was a call of shutdown().
ShutdownReturned == op = "done" /\ ret # <<>> /\ ret[1].src = "shutdown"

\* The processor as shutdown() leaves it: Uninitialized still, or holding an
\* adapter without a reader.
Released == ocr_engine = <<>> \/ ~ocr_engine[1].reader

\* C14: shutdown() raises nothing, whatever the state of the processor; it
\* leaves an Uninitialized processor as it is, and any other with its adapter
\* and the adapter's reader released; called on a processor as a shutdown()
\* left it, it changes nothing.
C14_ShutdownIdempotent ==
    /\ [](ShutdownReturned => ret[1].ok /\ Released)
    /\ [][ShutdownReturned' /\ ~ShutdownReturned =>
            /\ ocr_engine = <<>> <=> ocr_engine' = <<>>
            /\ device' = device
            /\ Released => ocr_engine' = ocr_engine]_vars

\* shutdown() has returned for the second time on a processor that was Ready
\* before the first.
C14_Witness ==
    /\ ShutdownReturned
    /\ shutdowns = 2
    /\ ocr_engine = << [reader |-> FALSE] >>
    /\ ret[1].ok

-----------------------------------------------------------------------------
(* Properties of the box conversions, checked under SpecBox *)

\* The dimension coordinate i of a box is measured against: the width for x1
\* and x2, the height for y1 and y2.
DimensionOf(i) == IF i \in {1, 3} THEN nb_size[1] ELSE nb_size[2]

\* floor(a / d): the integer q with q * d <= a < (q + 1) * d.
FloorOf(a, d) == CHOOSE q \in -2000..2000 : q * d <= a /\ a < (q + 1) * d

\* a / d rounded toward zero.
TowardZeroOf(a, d) == IF a >= 0 THEN FloorOf(a, d) ELSE -FloorOf(-a, d)

\* C15 as stated: every coordinate of the normalized box is
\* floor(1000 * coordinate / dimension).
C15_NormalizeIsFloor ==
    nb_normalized # <<>> =>
        \A i \in 1..4 : nb_normalized[1][i] = FloorOf(1000 * nb_box[i], DimensionOf(i))

\* C15 as amended: every coordinate of the normalized box is
\* 1000 * coordinate / dimension rounded toward zero (x against the width, y
\* against the height), which is floor(1000 * coordinate / dimension) for a
\* coordinate that is not negative.
C15_NormalizeTowardZero ==
    nb_normalized # <<>> =>
        \A i \in 1..4 :
            /\ nb_normalized[1][i] = TowardZeroOf(1000 * nb_box[i], DimensionOf(i))
            /\ nb_box[i] >= 0 =>
                  nb_normalized[1][i] = FloorOf(1000 * nb_box[i], DimensionOf(i))

\* A box that starts one pixel left of a 600 x 400 image: -1000/600 = -1.67
\* becomes -1, the other coordinates are floors.
C15_Witness ==
    /\ nb_pc = "normalized"
    /\ nb_size = <<600, 400>>
    /\ nb_box = <<-1, 50, 120, 70>>
    /\ nb_normalized = << <<-1, 125, 200, 175>> >>

\* The coordinates of the restored box, in the order of the pixel box.
Restored == <<nb_restored[1].x1, nb_restored[1].y1, nb_restored[1].x2, nb_restored[1].y2>>

\* C16 as stated: unnormalize_bbox of the normalized box differs from the box
\* by at most 1 in each coordinate.
C16_RoundTripWithinOne ==
    nb_restored # <<>> =>
        \A i \in 1..4 : Abs(Restored[i] - nb_box[i]) <= 1

\* ceil(d / 1000) for d > 0.
CeilThousandth(d) == (d + 999) \div 1000

\* C16 as amended: each coordinate of unnormalize_bbox of the normalized box
\* lies between zero and the coordinate of the box, at most
\* ceil(dimension / 1000) from it; hence at most 1 from it when the dimension
\* is at most 1000.
C16_RoundTripBound ==
    nb_restored # <<>> =>
        \A i \in 1..4 :
            /\ Abs(Restored[i] - nb_box[i]) <= CeilThousandth(DimensionOf(i))
            /\ nb_box[i] >= 0 => Restored[i] \in 0..nb_box[i]
            /\ nb_box[i] <= 0 => Restored[i] \in nb_box[i]..0
            /\ DimensionOf(i) <= 1000 => Abs(Restored[i] - nb_box[i]) <= 1

\* x1 = 3 in an image 1999 wide: normalized to 1, restored to 1, two pixels off.
C16_Witness ==
    /\ nb_pc = "done"
    /\ nb_size = <<1999, 2000>>
    /\ nb_box[1] = 3
    /\ nb_normalized[1][1] = 1
    /\ nb_restored[1].x1 = 1

-----------------------------------------------------------------------------
(* Properties of preprocess_image, checked under SpecImage *)

\* Width and height of the decoded source.
SourceWidth == img_source.size[1]

SourceHeight == img_source.size[2]

\* Validation is over: it raised, or the image went on to be resized.
Validated == img_validate /\ img_pc \in {"resize", "done", "raised"}

\* The type of the exception preprocess_image raised, "" if it raised none.
RaisedType == IF img_error = <<>> THEN "" ELSE img_error[1].type

\* C17: with validation enabled, ImageTooLargeError is raised if and only if
\* the width or the height exceeds 10000 (also when the other dimension is
\* below 100); otherwise InvalidImageError is raised if the width or the height
\* is below 100; with both dimensions in 100..10000 no dimension error is
\* raised.
C17_DimensionErrors ==
    Validated =>
        /\ RaisedType = "ImageTooLargeError" <=> (SourceWidth > 10000 \/ SourceHeight > 10000)
        /\ ~(SourceWidth > 10000 \/ SourceHeight > 10000)
             /\ (SourceWidth < 100 \/ SourceHeight < 100)
              => RaisedType = "InvalidImageError"
        /\ SourceWidth \in 100..10000 /\ SourceHeight \in 100..10000
              => RaisedType \notin {"ImageTooLargeError", "InvalidImageError"}
        /\ img_pc = "raised" <=> RaisedType # ""

\* An image too wide and too low at once: the too-large error was raised.
C17_Witness ==
    /\ img_pc = "raised"
    /\ img_validate
    /\ img_source.size = <<10001, 99>>
    /\ RaisedType = "ImageTooLargeError"

\* The decoded format of the source is a name outside the allow-list.
FormatNotAllowed ==
    /\ img_source.format # <<>>
    /\ img_source.format[1] \notin {"PNG", "JPEG", "TIFF", "BMP", "GIF"}

\* C18: with validation enabled, preprocess_image never returns an image for
\* a source whose decoded format is outside the allow-list, whatever its
\* colour mode: it raises, and UnsupportedFormatError is what it raises when
\* the dimensions of the source are within the limits.
C18_UnsupportedFormatRejected ==
    img_validate /\ FormatNotAllowed /\ img_pc \in {"resize", "done", "raised"} =>
        /\ img_pc = "raised"
        /\ SourceWidth \in 100..10000 /\ SourceHeight \in 100..10000
              => RaisedType = "UnsupportedFormatError"

\* The size the image has when preprocess_image hands it to resize_image.
SizeBeforeResize == img_source.size

-----------------------------------------------------------------------------
(* Properties of the exporters, checked under SpecExport *)

\* export_result has returned or raised.
ExportResultDone == ex_fn = "export_result" /\ ex_pc \in {"returned", "raised"}

\* What the exporter that the format names does on the result.
CorrespondingExporter ==
    CASE ex_format = "json" -> export_json(ex_result, TRUE)
      [] ex_format = "csv" -> export_csv(ex_result)
      [] ex_format = "xml" -> export_xml(ex_result)

\* C20: export_result(r, f) fails with ExportError and produces no output for
\* every format f outside {json, csv, xml}; for f in that set it returns
\* exactly the output of the corresponding exporter on r (and fails as that
\* exporter fails).  No output exists before the call is over.
C20_ExportDispatch ==
    /\ ex_fn = "export_result" /\ ex_pc \notin {"returned", "raised"}
          => ex_output = <<>> /\ ex_error = <<>>
    /\ ExportResultDone =>
          IF ex_format \notin {"json", "csv", "xml"}
          THEN /\ ex_pc = "raised"
               /\ ex_output = <<>>
               /\ ex_error # <<>>
               /\ ex_error[1].type = "ExportError"
          ELSE IF CorrespondingExporter.ok
               THEN /\ ex_pc = "returned"
                    /\ ex_output = <<CorrespondingExporter.value>>
                    /\ ex_error = <<>>
               ELSE /\ ex_pc = "raised"
                    /\ ex_output = <<>>
                    /\ ex_error = <<CorrespondingExporter.error>>

\* The sample of the unit tests exported as csv through export_result.
C20_Witness ==
    /\ ExportResultDone
    /\ ex_format = "csv"
    /\ ex_result = <<SampleProcessingResult>>
    /\ ex_output = << "page,text,label,confidence,x1,y1,x2,y2\r\n"
                      \o "1,Name:,QUESTION,0.95,50,50,120,70\r\n"
                      \o "1,John Doe,ANSWER,0.92,150,50,280,70\r\n" >>

\* The character of s at position i ("" past the end).
CharAt(s, i) == IF i <= Len(s) THEN SubSeq(s, i, i) ELSE ""

\* csv.reader on the field that starts at position i of s: the field and the
\* position after it.  A field that starts with a quote runs to the quote that
\* closes it, doubled quotes standing for one; any other field runs to the
\* next comma or line break.
CsvField(s, i) ==
    IF CharAt(s, i) = "\""
    THEN LET close == CHOOSE j \in (i + 1)..Len(s) :
                          /\ CharAt(s, j) = "\""
                          /\ CharAt(s, j + 1) # "\""
                          /\ Cardinality({k \in (i + 1)..j : CharAt(s, k) = "\""}) % 2 = 1
                          /\ \A j2 \in (i + 1)..(j - 1) :
                                ~ /\ CharAt(s, j2) = "\""
                                  /\ CharAt(s, j2 + 1) # "\""
                                  /\ Cardinality({k \in (i + 1)..j2 : CharAt(s, k) = "\""}) % 2 = 1
             inner == SubSeq(s, i + 1, close - 1)
             \* the positions of inner that are kept: all but the second of
             \* each pair of quotes
             kept == {k \in 1..Len(inner) :
                         ~ /\ CharAt(inner, k) = "\""
                           /\ Cardinality({k2 \in 1..k : CharAt(inner, k2) = "\""}) % 2 = 0}
             RECURSIVE Keep(_)
             Keep(k) == IF k > Len(inner) THEN ""
                        ELSE (IF k \in kept THEN CharAt(inner, k) ELSE "") \o Keep(k + 1)
         IN [field |-> Keep(1), next |-> close + 1]
    ELSE LET stop == CHOOSE j \in i..(Len(s) + 1) :
                         /\ CharAt(s, j) \in {",", "\r", "\n", ""}
                         /\ \A j2 \in i..(j - 1) : CharAt(s, j2) \notin {",", "\r", "\n", ""}
         IN [field |-> SubSeq(s, i, stop - 1), next |-> stop]

RECURSIVE CsvRecord(_, _)
\* csv.reader on the record that starts at position i: its fields and the
\* position after its line break
CsvRecord(s, i) ==
    LET f == CsvField(s, i)
    IN IF CharAt(s, f.next) = ","
       THEN LET rest == CsvRecord(s, f.next + 1)
            IN [fields |-> <<f.field>> \o rest.fields, next |-> rest.next]
       ELSE [fields |-> <<f.field>>,
             next |-> IF CharAt(s, f.next) = "\r" /\ CharAt(s, f.next + 1) = "\n"
                      THEN f.next + 2 ELSE f.next + 1]

RECURSIVE CsvRecords(_, _)
\* list(csv.reader(io.StringIO(s, newline=""))) from position i on
CsvRecords(s, i) ==
    IF i > Len(s) THEN <<>>
    ELSE LET r == CsvRecord(s, i) IN <<r.fields>> \o CsvRecords(s, r.next)

CsvHeader == <<"page", "text", "label", "confidence", "x1", "y1", "x2", "y2">>

\* The fields the claim gives the row of an entity of a page.
CsvFieldsOf(page_result, entity) ==
    LET Coord(key) ==
            IF "bbox" \in DOMAIN entity /\ key \in DOMAIN entity.bbox
            THEN ToString(entity.bbox[key]) ELSE "0"
    IN << IF "page" \in DOMAIN page_result THEN ToString(page_result.page) ELSE "1",
          IF "text" \in DOMAIN entity THEN entity.text ELSE "",
          IF "label" \in DOMAIN entity THEN entity.label ELSE "",
          IF "confidence" \in DOMAIN entity THEN FloatRepr(entity.confidence, 4) ELSE "0",
          Coord("x1"), Coord("y1"), Coord("x2"), Coord("y2") >>

RECURSIVE CsvExpected(_, _, _)
\* The rows of the entities from entity e of page p on, in page order and then
\* in entity order.
CsvExpected(pages, p, e) ==
    IF p > Len(pages) THEN <<>>
    ELSE LET ents == IF "entities" \in DOMAIN pages[p] THEN pages[p].entities ELSE <<>>
         IN IF e > Len(ents) THEN CsvExpected(pages, p + 1, 1)
            ELSE <<CsvFieldsOf(pages[p], ents[e])>> \o CsvExpected(pages, p, e + 1)

\* export_csv has run on a dict, called directly or by export_result.
CsvExported ==
    /\ ex_pc \in {"returned", "raised"}
    /\ ex_fn = "export_csv" \/ (ex_fn = "export_result" /\ ex_format = "csv")
    /\ ex_result # <<>>

\* C21: export_csv(r) does not fail; its first line is exactly
\* page,text,label,confidence,x1,y1,x2,y2, and what follows is exactly one row
\* per entity, in page order then entity order, each with the page number of
\* its entity and with an empty or zero value where the entity lacks text,
\* label, confidence or a coordinate of its bbox.
C21_CsvRows ==
    CsvExported =>
        /\ ex_pc = "returned"
        /\ SubSeq(ex_output[1], 1, 40) = "page,text,label,confidence,x1,y1,x2,y2\r\n"
        /\ CsvRecords(ex_output[1], 1)
              = <<CsvHeader>>
                \o CsvExpected(IF "results" \in DOMAIN ex_result[1]
                               THEN ex_result[1].results ELSE <<>>, 1, 1)

\* A result whose entities lack keys has been exported: the first entity has
\* only a text and x1, the second nothing at all.
C21_Witness ==
    /\ CsvExported
    /\ ex_result = ExResults[5]
    /\ ex_output = << "page,text,label,confidence,x1,y1,x2,y2\r\n"
                      \o "1,Name:,,0,50,0,0,0\r\n"
                      \o "1,,,0,0,0,0,0\r\n" >>

\* json.loads(s) for the output of export_json: <<>> for null, <<d>> for a
\* dict d.  A number with a point is a float, kept in ten-thousandths when it
\* is the value of "confidence" and in thousandths otherwise; dicts become
\* functions on their keys and lists sequences.
JsonLoads(s) ==
    LET Digit(c) == CHOOSE d \in 0..9 : ToString(d) = c
        RECURSIVE Number(_)
        Number(t) == IF t = "" THEN 0
                     ELSE 10 * Number(SubSeq(t, 1, Len(t) - 1)) + Digit(CharAt(t, Len(t)))
        RECURSIVE Power10(_)
        Power10(k) == IF k = 0 THEN 1 ELSE 10 * Power10(k - 1)
        \* the first position from i on that holds no white space
        Ws(i) == CHOOSE j \in i..(Len(s) + 1) :
                     /\ CharAt(s, j) \notin {" ", "\n"}
                     /\ \A j2 \in i..(j - 1) : CharAt(s, j2) \in {" ", "\n"}
        \* the quote at j is not escaped: an even number of backslashes before it
        Closes(i, j) ==
            /\ CharAt(s, j) = "\""
            /\ \E n \in 0..(j - i - 1) :
                  /\ n % 2 = 0
                  /\ \A m \in 1..n : CharAt(s, j - m) = "\\"
                  /\ (n = j - i - 1 \/ CharAt(s, j - n - 1) # "\\")
        StringAt(i) ==
            LET close == CHOOSE j \in (i + 1)..Len(s) :
                             Closes(i, j) /\ \A j2 \in (i + 1)..(j - 1) : ~Closes(i, j2)
                inner == SubSeq(s, i + 1, close - 1)
                RECURSIVE Unescape(_)
                Unescape(k) ==
                    IF k > Len(inner) THEN ""
                    ELSE IF CharAt(inner, k) = "\\"
                         THEN (CASE CharAt(inner, k + 1) = "n" -> "\n"
                                 [] CharAt(inner, k + 1) = "r" -> "\r"
                                 [] CharAt(inner, k + 1) = "t" -> "\t"
                                 [] OTHER -> CharAt(inner, k + 1)) \o Unescape(k + 2)
                         ELSE CharAt(inner, k) \o Unescape(k + 1)
            IN [val |-> Unescape(1), next |-> close + 1]
        NumberAt(i, key) ==
            LET chars == {"0", "1", "2", "3", "4", "5", "6", "7", "8", "9", "."}
                stop == CHOOSE j \in i..(Len(s) + 1) :
                            /\ CharAt(s, j) \notin chars
                            /\ \A j2 \in i..(j - 1) : CharAt(s, j2) \in chars
                t == SubSeq(s, i, stop - 1)
                points == {p \in 1..Len(t) : CharAt(t, p) = "."}
                scale == IF key = "confidence" THEN 4 ELSE 3
            IN [val |-> IF points = {} THEN Number(t)
                        ELSE LET p == CHOOSE p \in points : TRUE
                                 fraction == SubSeq(t, p + 1, Len(t))
                             IN Number(SubSeq(t, 1, p - 1)) * Power10(scale)
                                + Number(fraction) * Power10(scale - Len(fraction)),
                next |-> stop]
        Dict(members) ==
            [k \in {members[x][1] : x \in 1..Len(members)} |->
                members[CHOOSE x \in 1..Len(members) :
                            /\ members[x][1] = k
                            /\ \A y \in (x + 1)..Len(members) : members[y][1] # k][2]]
        RECURSIVE Value(_, _), Members(_), Items(_, _)
        Value(i, key) ==
            CASE CharAt(s, i) = "{" ->
                     IF CharAt(s, Ws(i + 1)) = "}"
                     THEN [val |-> <<>>, next |-> Ws(i + 1) + 1]
                     ELSE LET m == Members(Ws(i + 1))
                          IN [val |-> Dict(m.members), next |-> m.next]
              [] CharAt(s, i) = "[" ->
                     IF CharAt(s, Ws(i + 1)) = "]"
                     THEN [val |-> <<>>, next |-> Ws(i + 1) + 1]
                     ELSE LET m == Items(Ws(i + 1), key)
                          IN [val |-> m.items, next |-> m.next]
              [] CharAt(s, i) = "\"" -> StringAt(i)
              [] OTHER -> NumberAt(i, key)
        Members(i) ==
            LET k == StringAt(i)
                v == Value(Ws(Ws(k.next) + 1), k.val)
                after == Ws(v.next)
            IN IF CharAt(s, after) = ","
               THEN LET rest == Members(Ws(after + 1))
                    IN [members |-> << <<k.val, v.val>> >> \o rest.members, next |-> rest.next]
               ELSE [members |-> << <<k.val, v.val>> >>, next |-> after + 1]
        Items(i, key) ==
            LET v == Value(i, key)
                after == Ws(v.next)
            IN IF CharAt(s, after) = ","
               THEN LET rest == Items(Ws(after + 1), key)
                    IN [items |-> <<v.val>> \o rest.items, next |-> rest.next]
               ELSE [items |-> <<v.val>>, next |-> after + 1]
    IN IF s = "null" THEN <<>> ELSE << Value(Ws(1), "").val >>

\* export_json has run, called directly or by export_result.
JsonExported ==
    /\ ex_pc \in {"returned", "raised"}
    /\ ex_fn = "export_json" \/ (ex_fn = "export_result" /\ ex_format = "json")

\* C22: export_json(r) returns a string that parses back to a structure equal
\* to r, and exporting that structure again gives the identical string.
C22_JsonRoundTrip ==
    JsonExported =>
        /\ ex_pc = "returned"
        /\ JsonLoads(ex_output[1]) = ex_result
        /\ export_json(JsonLoads(ex_output[1]), ex_pretty) = Returned(ex_output[1])

\* The result with quotes, a backslash and a line feed in its texts and with
\* the confidences 0.875 and 0.001 has been exported with indentation.
C22_Witness ==
    /\ JsonExported
    /\ ex_pretty
    /\ ex_result = ExResults[8]
    /\ ex_output # <<>>
    /\ JsonLoads(ex_output[1])[1].results[1].entities[1].text = "R&D, \"Q1\" <new>"
    /\ JsonLoads(ex_output[1])[1].results[1].entities[3].confidence = 10

-----------------------------------------------------------------------------
(* Properties of the model cache, checked under SpecLoader *)

\* The step is a call of load_model with this (model name, device)
LdLoadCalled(k) ==
    /\ ld_calls' = ld_calls + 1
    /\ ld_ret'[1].fn = "load_model"
    /\ ld_ret'[1].key = k

\* What every call does to the caches: a key loaded earlier and not cleared
\* since is answered with the very objects that load returned and the loader
\* does not run; a key with no such load makes the loader run, and what it
\* returns is new; clear_model_cache leaves both caches empty.
LdCacheContract ==
    /\ \A k \in DOMAIN ld_history :
          LdLoadCalled(k) =>
             IF ld_history[k].loaded # <<>>
             THEN /\ ld_ret'[1].ok
                  /\ ld_ret'[1].value = ld_history[k].loaded[1]
                  /\ ld_loads' = ld_loads
             ELSE /\ ld_loads' = ld_loads + 1
                  /\ ld_ret'[1].ok =>
                        /\ ld_ret'[1].value[1].load = ld_loads'
                        /\ ld_ret'[1].value[2].load = ld_loads'
    /\ (ld_calls' = ld_calls + 1 /\ ld_ret'[1].fn = "clear_model_cache") =>
          /\ ld_model_cache' = <<>>
          /\ ld_processor_cache' = <<>>

\* C23 as stated: a load with a (model name, device) key that was loaded
\* earlier and not cleared since returns the identical cached model and
\* processor without loading again, clear_model_cache empties both caches and
\* the next load reloads, and the loader runs at most once per key between
\* two clears.
C23_LoaderRunsOncePerKey ==
    [][ /\ LdCacheContract
        /\ \A k \in DOMAIN ld_history' : ld_history'[k].runs <= 1 ]_vars

\* C23, amended: as above, but it is the completed loads that number at most
\* one per key between two clears; a load that raises ModelLoadError stores
\* nothing, so the next call with the same key runs the loader again.
C23_LoaderCompletesOncePerKey ==
    [][ /\ LdCacheContract
        /\ \A k \in DOMAIN ld_history' : ld_history'[k].completed <= 1
        /\ DOMAIN ld_model_cache' = DOMAIN ld_processor_cache' ]_vars

\* A load failed, the next load of the same key ran the loader again, and a
\* third call got the cached pair of the second.
C23_Witness ==
    /\ ld_pc = "ready"
    /\ ld_ret # <<>>
    /\ ld_ret[1].fn = "load_model"
    /\ ld_ret[1].ok
    /\ ld_loads = 2
    /\ ld_calls = 3
    /\ ld_ret[1].value[1].load = 2
    /\ ld_history[ld_ret[1].key].runs = 2
    /\ ld_history[ld_ret[1].key].completed = 1

-----------------------------------------------------------------------------
(* Properties of the OCR adapter and its owner, checked under SpecOcr *)

\* The step is a call of initialize(), on the processor or on its adapter
OcInitializeCalled ==
    /\ oc_calls' = oc_calls + 1
    /\ oc_ret'[1].fn \in {"DocumentProcessor.initialize", "EasyOCREngine.initialize"}

\* The processor holds an adapter that holds a reader
OcInitialized == oc_engine # <<>> /\ oc_engine[1].reader # <<>>

\* C24: initialize() called on an initialized adapter, or on an initialized
\* DocumentProcessor, leaves it as it was after the first call and constructs
\* neither a second reader nor a second adapter.
C24_InitializeIdempotent ==
    [][ (OcInitializeCalled /\ OcInitialized) =>
            /\ oc_engine' = oc_engine
            /\ oc_readers' = oc_readers
            /\ oc_adapters' = oc_adapters ]_vars

\* The step is a call that asks the factory for an adapter of this name
OcFactoryCalled ==
    /\ oc_calls' = oc_calls + 1
    /\ oc_ret'[1].fn \in {"DocumentProcessor.initialize", "create_ocr_engine"}

\* C25: asking for an adapter under a name the factory does not know raises a
\* configuration error, an error of the service's taxonomy, and constructs no
\* adapter; a known name yields an adapter whose name is the configured key.
C25_UnknownEngineRejected ==
    [][ OcFactoryCalled =>
            IF oc_ret'[1].key \notin KnownEngines
            THEN /\ ~oc_ret'[1].ok
                 /\ oc_ret'[1].error.type = "ConfigurationError"
                 /\ oc_ret'[1].error.type \in ServiceErrorTypes
                 /\ oc_adapters' = oc_adapters
                 /\ oc_engine' = oc_engine
            ELSE /\ oc_adapters' = oc_adapters + 1
                 /\ oc_ret'[1].fn = "create_ocr_engine" =>
                        oc_ret'[1].ok /\ oc_ret'[1].value.name = oc_ret'[1].key
                 /\ oc_ret'[1].fn = "DocumentProcessor.initialize" =>
                        oc_engine'[1].name = oc_ret'[1].key ]_vars

-----------------------------------------------------------------------------
(* Properties of the shared processor and its callers, checked under         *)
(* SpecService                                                               *)

\* The processors that get_processor has returned so far
SvReturned ==
    { sv_callers[c].processor[1] : c \in {d \in Callers : sv_callers[d].processor # <<>>} }

\* C26: get_processor returns the same DocumentProcessor instance to every
\* caller, whatever the interleaving of the callers (concurrent first calls
\* included), and at most one instance is ever constructed.
C26_OneProcessor ==
    /\ sv_made <= 1
    /\ Cardinality(SvReturned) <= 1

\* The confidences of the entities in the answer caller c has received
SvConfidences(c) ==
    LET answer == sv_callers[c].result[1]
        items == IF sv_callers[c].kind = "batch"
                 THEN {answer.results[i] : i \in DOMAIN answer.results}
                 ELSE {answer}
        pages == UNION { {item.results[i] : i \in DOMAIN item.results} : item \in items }
    IN UNION { {page.entities[j].confidence : j \in DOMAIN page.entities} : page \in pages }

\* Caller c, serving a request of one of these kinds, has its answer
SvAnswered(c, kinds) == sv_callers[c].kind \in kinds /\ sv_callers[c].pc = "done"

\* C27: every entity in the answer to a request to /process, /batch or
\* /process-pdf has a confidence not below the confidence_threshold sent with
\* the request.
C27_RequestThreshold ==
    \A c \in DOMAIN sv_callers :
        SvAnswered(c, {"process", "batch", "pdf"}) =>
            \A conf \in SvConfidences(c) : conf >= sv_callers[c].t

\* C29 as stated: when the callers of the UI handler each set the shared
\* threshold to their own t and then call process_image, every entity a caller
\* receives has a confidence not below that caller's t, whatever the
\* interleaving of the callers' steps.
C29_CallerThreshold ==
    \A c \in DOMAIN sv_callers :
        SvAnswered(c, {"ui"}) =>
            \A conf \in SvConfidences(c) : conf >= sv_callers[c].t

\* C29, amended: the same for every caller between whose own set step and
\* process_image call no other caller set the threshold, and whose t is a
\* multiple of 0.001 (the confidences of the result are rounded to three
\* decimals).
C29_UndisturbedCallerThreshold ==
    \A c \in DOMAIN sv_callers :
        ( /\ SvAnswered(c, {"ui"})
          /\ ~sv_callers[c].disturbed
          /\ sv_callers[c].t % 10 = 0 ) =>
            \A conf \in SvConfidences(c) : conf >= sv_callers[c].t

\* Two callers of the UI handler have interleaved: c2 read the threshold that
\* c1 set after it, and c1, undisturbed, has entities at or above its 0.9.
C29_Witness ==
    /\ sv_pc = "serving"
    /\ SvAnswered("c1", {"ui"})
    /\ SvAnswered("c2", {"ui"})
    /\ sv_callers["c1"].t = 9000
    /\ sv_callers["c2"].t = 1000
    /\ ~sv_callers["c1"].disturbed
    /\ sv_callers["c2"].disturbed
    /\ SvConfidences("c1") # {}
    /\ SvConfidences("c2") # {}

-----------------------------------------------------------------------------
(* The output of aggregate_entities as a partition of its input, checked     *)
(* under SpecAggregate                                                       *)

\* `starts` (a set of indices of `ents`) cuts ents into contiguous runs, the
\* j-th of which has the label of out[j] throughout and texts that, joined by
\* single spaces, are the text of out[j].
CutsIntoRuns(starts, ents, out) ==
    LET n == Len(ents)
        Start(j) == CHOOSE x \in starts : Cardinality({y \in starts : y < x}) = j - 1
        End(j) == IF j < Cardinality(starts) THEN Start(j + 1) - 1 ELSE n
        Run(j) == SubSeq(ents, Start(j), End(j))
    IN /\ Cardinality(starts) = Len(out)
       /\ n > 0 => 1 \in starts
       /\ \A j \in 1..Len(out) :
             /\ \A i \in 1..Len(Run(j)) : Run(j)[i].label = out[j].label
             /\ out[j].text = JoinWithSpaces([i \in 1..Len(Run(j)) |-> Run(j)[i].text])

\* C30: the entities returned correspond, in order, to contiguous runs of the
\* input that follow one another from its first to its last entity (nothing
\* lost, duplicated or reordered); every input of a run has the label of its
\* output entity, whose text is the run's texts joined by single spaces; the
\* output is not longer than the input, and empty only if the input is empty.
C30_ContiguousRuns ==
    agg_pc = "done" =>
        /\ Len(agg_aggregated) <= Len(agg_entities)
        /\ agg_aggregated = <<>> <=> agg_entities = <<>>
        /\ \E starts \in SUBSET (1..Len(agg_entities)) :
              CutsIntoRuns(starts, agg_entities, agg_aggregated)

\* Three inputs came out as two entities: a run of two and a run of one.
C30_Witness ==
    /\ agg_pc = "done" /\ agg_pass = 1
    /\ Len(agg_entities) = 3
    /\ Len(agg_aggregated) = 2
    /\ agg_aggregated[1].text = agg_entities[1].text \o " " \o agg_entities[2].text
    /\ agg_aggregated[2].text = agg_entities[3].text
    /\ agg_entities[3].label = agg_entities[1].label

-----------------------------------------------------------------------------
(* The stages and their arguments, checked under SpecStages *)

\* C28: no stage changes what it was given.  While process_predictions,
\* aggregate_entities, format_output or an exporter runs, and when it returns,
\* the inference result, the entity list with every Entity in it, and the
\* ProcessingResult are what they were when the call was made; a merge builds
\* a new Entity and leaves both of its operands as they were.
C28_InputsUnchanged ==
    /\ [][ /\ dec_pc = "loop" => dec_result' = dec_result
           /\ agg_pc = "loop" => agg_entities' = agg_entities
           /\ fo_pc = "call" => fo_entities' = fo_entities
           /\ ex_pc \notin {"off", "returned", "raised"} => ex_result' = ex_result
           /\ (agg_pc = "loop" /\ agg_current # <<>> /\ agg_idx' = agg_idx + 1) =>
                 /\ agg_entities'[agg_idx'] = agg_entities[agg_idx']
                 /\ \A i \in 1..agg_idx : agg_entities'[i] = agg_entities[i] ]_vars
    /\ [](agg_pass = 1 => agg_entities = agg_first)

\* aggregate_entities has merged the first two of three entities and returned,
\* and its argument is the list it was called with.
C28_Witness ==
    /\ agg_pc = "done" /\ agg_pass = 1
    /\ Len(agg_first) = 3
    /\ Len(agg_aggregated) = 2
    /\ agg_aggregated[1].text = agg_first[1].text \o " " \o agg_first[2].text
    /\ agg_aggregated[1] # agg_first[1]
    /\ agg_entities = agg_first

====
